---------------------------- MODULE Spec2Model ----------------------------
(***************************************************************************)
(* State-machine model of the job-search-agent pipeline:                   *)
(*   - fingerprint generation            (src/models/job_utils.py)         *)
(*   - ingestion / deduplication         (scripts/scrape_and_store.py)     *)
(*   - staleness sweep, backfill         (src/models/job_utils.py)         *)
(*   - multi-adapter orchestration       (scripts/scrape_all_boards.py)    *)
(*   - match scoring                     (src/matching/matcher.py)         *)
(*                                                                         *)
(* Text is a sequence of one-character strings.  The four-character        *)
(* legal-entity literal that normalize_text strips is the single token KK. *)
(***************************************************************************)
EXTENDS Integers, Sequences, FiniteSets, TLC

VARIABLES
    call,       \* pure-function specifications: the call being evaluated
    ret,        \* pure-function specifications: its result (NoCall before)
    jobs,       \* the committed rows of table "jobs", in id order
    now,        \* the wall clock, in days
    last,       \* the last storage operation and what it returned
    config,     \* run_all_scrapers: the configuration it was called with
    opc,        \* run_all_scrapers: where the orchestrator thread is
    scraper,    \* run_all_scrapers: each adapter's run_scraper call
    results,    \* run_all_scrapers: OrchestratorResult.results
    shadow,     \* the same run with one adapter left out of the configuration
    user_criteria, \* each user's most recently updated row of "user_criteria"
    matched_jobs \* the committed rows of table "matched_jobs", in id order

orchVars == <<config, opc, scraper, results, shadow>>

matchVars == <<user_criteria, matched_jobs>>

vars ==
    <<call, ret, jobs, now, last, config, opc, scraper, results, shadow,
      user_criteria, matched_jobs>>

\* Python None where a text is expected
NoneText == <<"None">>

\* Python None / SQL NULL where an integer is expected
NoneInt == 0 - 1

\* no call in progress / no result yet
NoCall == [op |-> "none"]

\* no user, no criteria, no match
MatchIdle ==
    /\ user_criteria = NoCall
    /\ matched_jobs = <<>>

\* run_all_scrapers has not been called
OrchIdle ==
    /\ config = NoCall
    /\ opc = "idle"
    /\ scraper = NoCall
    /\ results = <<>>
    /\ shadow = NoCall

(***************************************************************************)
(* Bounds of the model.                                                    *)
(***************************************************************************)
MaxLen == 3

(***************************************************************************)
(* Text helpers.                                                           *)
(***************************************************************************)
KK == "KK"

Upper == {"A"}

Whitespace == {" "}

Brackets == {"("}

Alphabet == {"a", "A", " ", "(", KK}

LowerChar(c) == IF c = "A" THEN "a" ELSE c

Lower(s) == [i \in 1..Len(s) |-> LowerChar(s[i])]

RECURSIVE LStrip(_)
LStrip(s) == IF s # <<>> /\ Head(s) \in Whitespace THEN LStrip(Tail(s)) ELSE s

RECURSIVE RStrip(_)
RStrip(s) ==
    IF s # <<>> /\ s[Len(s)] \in Whitespace
    THEN RStrip(SubSeq(s, 1, Len(s) - 1))
    ELSE s

Strip(s) == RStrip(LStrip(s))

\* re.sub(r"\s+", " ", text): every maximal run of whitespace becomes one " "
RECURSIVE CollapseWs(_)
CollapseWs(s) ==
    IF s = <<>> THEN <<>>
    ELSE IF Head(s) \in Whitespace
         THEN <<" ">> \o CollapseWs(LStrip(s))
         ELSE <<Head(s)>> \o CollapseWs(Tail(s))

\* re.sub(r"^KK\s*", "", text)
StripAffixPrefix(s) ==
    IF s # <<>> /\ Head(s) = KK THEN LStrip(Tail(s)) ELSE s

\* re.sub(r"\s*KK$", "", text)
StripAffixSuffix(s) ==
    IF s # <<>> /\ s[Len(s)] = KK THEN RStrip(SubSeq(s, 1, Len(s) - 1)) ELSE s

\* re.sub(r"[...brackets...]", "", text)
RemoveBrackets(s) == SelectSeq(s, LAMBDA c : c \notin Brackets)

normalize_text(text) ==
    IF text = NoneText \/ text = <<>> THEN <<>>
    ELSE Strip(RemoveBrackets(StripAffixSuffix(StripAffixPrefix(
             CollapseWs(Strip(Lower(text)))))))

\* "|".join(parts)
Join3(a, b, c) == a \o <<"|">> \o b \o <<"|">> \o c

\* hashlib.sha256(...).hexdigest()[:16]: the digest is taken to be free of
\* collisions, so the digest of a text is represented by the text itself.
Sha256Hex16(s) == s

generate_fingerprint(title, company, job_board) ==
    Sha256Hex16(Join3(normalize_text(title),
                      normalize_text(company),
                      Strip(Lower(job_board))))

(***************************************************************************)
(* Specification SpecFp: generate_fingerprint applied to two spellings of  *)
(* one posting that differ by a single edit of one kind in one component.  *)
(***************************************************************************)
RECURSIVE SeqsUpTo(_)
SeqsUpTo(n) ==
    IF n = 0 THEN {<<>>}
    ELSE LET shorter == SeqsUpTo(n - 1)
         IN  shorter \cup {Append(s, c) : s \in {x \in shorter : Len(x) = n - 1},
                                          c \in Alphabet}

Texts == SeqsUpTo(MaxLen) \ {<<>>}

FixedTexts == {<<"a">>, <<"A", "a">>}

InsertAt(s, i, c) == SubSeq(s, 1, i) \o <<c>> \o SubSeq(s, i + 1, Len(s))

\* the spellings obtained from s by one edit of the given kind (the affix is
\* only added to a spelling that does not carry it at that end already)
EditVariants(s, kind) ==
    CASE kind = "case" ->
           {[s EXCEPT ![i] = "A"] : i \in {j \in 1..Len(s) : s[j] = "a"}}
      [] kind = "wsrun" ->
           {InsertAt(s, i, " ") : i \in {j \in 1..Len(s) : s[j] \in Whitespace}}
      [] kind = "wsaround" ->
           {<<" ">> \o s, s \o <<" ">>}
      [] kind = "bracket" ->
           {InsertAt(s, i, "(") : i \in 0..Len(s)}
      [] kind = "affixprefix" ->
           IF Head(s) = KK THEN {} ELSE {<<KK>> \o s}
      [] kind = "affixsuffix" ->
           IF s[Len(s)] = KK THEN {} ELSE {s \o <<KK>>}

KindsOf(component) ==
    CASE component = "company" ->
           {"case", "wsrun", "bracket", "affixprefix", "affixsuffix"}
      [] component = "title"  -> {"case", "wsrun", "wsaround"}
      [] component = "source" -> {"case", "wsrun", "wsaround"}

FpTriple(c, x) ==
    CASE c.component = "title"   -> <<x, c.other1, c.other2>>
      [] c.component = "company" -> <<c.other1, x, c.other2>>
      [] c.component = "source"  -> <<c.other1, c.other2, x>>

FpOf(triple) == generate_fingerprint(triple[1], triple[2], triple[3])

InitFp ==
    /\ \E cp \in {"title", "company", "source"} :
       \E k \in KindsOf(cp) :
       \E s \in Texts :
       \E t \in EditVariants(s, k) :
       \E o1 \in FixedTexts, o2 \in FixedTexts :
          call = [op |-> "generate_fingerprint", component |-> cp, kind |-> k,
                  s |-> s, t |-> t, other1 |-> o1, other2 |-> o2]
    /\ ret = NoCall
    /\ jobs = <<>>
    /\ now = 0
    /\ last = NoCall
    /\ OrchIdle
    /\ MatchIdle

ApplyFingerprint ==
    /\ ret = NoCall
    /\ call.op = "generate_fingerprint"
    /\ ret' = [op |-> call.op,
               fs |-> FpOf(FpTriple(call, call.s)),
               ft |-> FpOf(FpTriple(call, call.t))]
    /\ UNCHANGED <<matchVars, call, jobs, now, last, orchVars>>

NextFp == ApplyFingerprint

SpecFp == InitFp /\ [][NextFp]_vars

\* C8: two spellings of a company that differ only in letter case, in a run
\* of whitespace, in bracket punctuation or in the presence of the
\* legal-entity affix, and two spellings of a title or a source that differ
\* only in case or in surrounding/internal whitespace, give the same
\* fingerprint.
C8_SpellingsCollide ==
    ret.op = "generate_fingerprint" => ret.fs = ret.ft

(***************************************************************************)
(* Match scorer (src/matching/matcher.py).                                 *)
(***************************************************************************)
WEIGHT_TITLE_KEYWORDS == 40

WEIGHT_DESCRIPTION_KEYWORDS == 30

WEIGHT_LOCATION == 15

WEIGHT_SALARY == 15

\* JobMatcher._normalize_text
MatcherNormalize(text) ==
    IF text = NoneText \/ text = <<>> THEN <<>>
    ELSE CollapseWs(Strip(Lower(text)))

\* Python's "p in s" on strings
IsSubstring(p, s) ==
    \E i \in 0..(Len(s) - Len(p)) : SubSeq(s, i + 1, i + Len(p)) = p

\* JobMatcher._keyword_matches: the keywords found in the text, in order
keyword_matches(text, keywords) ==
    IF text = NoneText \/ text = <<>> \/ keywords = <<>> THEN <<>>
    ELSE SelectSeq(keywords,
                   LAMBDA k : /\ MatcherNormalize(k) # <<>>
                              /\ IsSubstring(MatcherNormalize(k),
                                             MatcherNormalize(text)))

\* JobMatcher._location_matches (the boolean of the returned pair)
location_matches(job_location, user_locations) ==
    IF job_location = NoneText \/ job_location = <<>> \/ user_locations = <<>>
    THEN FALSE
    ELSE \E i \in 1..Len(user_locations) :
            /\ MatcherNormalize(user_locations[i]) # <<>>
            /\ IsSubstring(MatcherNormalize(user_locations[i]),
                           MatcherNormalize(job_location))

\* Python's "a or b" on optional integers: a unless it is None or 0
PyOr(a, b) == IF a # NoneInt /\ a # 0 THEN a ELSE b

\* JobMatcher._salary_in_range, salary check before preference check.
\* The result is "true", "false" or "raise" (TypeError: None compared with
\* a number).
SalaryInRange(job_min, job_max, user_min, user_max) ==
    IF job_min = NoneInt /\ job_max = NoneInt THEN "false"
    ELSE IF user_min = NoneInt /\ user_max = NoneInt THEN "true"
    ELSE LET job_low  == PyOr(job_min, job_max)
             job_high == PyOr(job_max, job_min)
             user_low == PyOr(user_min, 0)
             \* user_high = user_max or float("inf")
             high_is_inf == (user_max = NoneInt \/ user_max = 0)
         IN  IF job_low = NoneInt THEN "raise"
             ELSE IF ~(high_is_inf \/ job_low <= user_max) THEN "false"
             ELSE IF job_high = NoneInt THEN "raise"
             ELSE IF job_high >= user_low THEN "true" ELSE "false"

\* a bug the salary claims must detect: preference check before salary check
SalaryInRangePreferenceFirst(job_min, job_max, user_min, user_max) ==
    IF user_min = NoneInt /\ user_max = NoneInt THEN "true"
    ELSE SalaryInRange(job_min, job_max, user_min, user_max)

salary_in_range(job_min, job_max, user_min, user_max) ==
    SalaryInRange(job_min, job_max, user_min, user_max)

\* "criteria.keywords_json or []", a single string wrapped into a list
JsonList(j) ==
    CASE j.kind = "none" -> <<>>
      [] j.kind = "str"  -> IF j.v = <<>> THEN <<>> ELSE <<j.v>>
      [] j.kind = "list" -> j.v

\* int(match_ratio * weight) for match_ratio = num / den
ScaledScore(num, den, weight) == (num * weight) \div den

SeqToSet(q) == {q[i] : i \in 1..Len(q)}

\* a variant that counts for the description also the keywords matched in
\* the title
AllDescMatches(desc_matches, title_matches) == desc_matches

\* [k for k in desc_matches if k not in details.title_keywords_matched]
UniqueDescMatches(desc_matches, title_matches) ==
    SelectSeq(desc_matches, LAMBDA k : k \notin SeqToSet(title_matches))

MatchRaised ==
    [raised |-> TRUE, total |-> NoneInt, title_score |-> NoneInt,
     description_score |-> NoneInt, location_score |-> NoneInt,
     salary_score |-> NoneInt]

match_job_to_user(job, criteria) ==
    LET keywords  == JsonList(criteria.keywords_json)
        locations == JsonList(criteria.locations_json)
        title_matches == keyword_matches(job.title, keywords)
        title_score ==
            IF keywords # <<>>
            THEN ScaledScore(Len(title_matches), Len(keywords),
                             WEIGHT_TITLE_KEYWORDS)
            ELSE 0
        desc_matches == keyword_matches(job.description, keywords)
        unique_desc_matches == UniqueDescMatches(desc_matches, title_matches)
        remaining_keywords == Len(keywords) - Len(title_matches)
        description_score ==
            IF keywords = <<>> THEN 0
            ELSE IF remaining_keywords > 0
                 THEN ScaledScore(Len(unique_desc_matches), remaining_keywords,
                                  WEIGHT_DESCRIPTION_KEYWORDS)
                 ELSE IF desc_matches # <<>>
                      THEN WEIGHT_DESCRIPTION_KEYWORDS ELSE 0
        location_score ==
            IF locations # <<>> /\ location_matches(job.location, locations)
            THEN WEIGHT_LOCATION ELSE 0
        salary_matched ==
            salary_in_range(job.salary_annual_min, job.salary_annual_max,
                            criteria.min_salary, criteria.max_salary)
        salary_score == IF salary_matched = "true" THEN WEIGHT_SALARY ELSE 0
    IN  IF salary_matched = "raise" THEN MatchRaised
        ELSE [raised |-> FALSE,
              total |-> title_score + description_score
                          + location_score + salary_score,
              title_score |-> title_score,
              description_score |-> description_score,
              location_score |-> location_score,
              salary_score |-> salary_score]

(***************************************************************************)
(* Specification SpecMatch: match_job_to_user on one job and one criteria. *)
(***************************************************************************)
MaxKeywords == 2

MatchTitles == {NoneText, <<"a">>, <<"A", " ", " ", "b">>}

MatchDescriptions == {NoneText, <<"a">>, <<"b">>}

MatchLocations == {NoneText, <<"a">>}

KeywordTexts == {<<>>, <<"a">>, <<"b">>}

RECURSIVE ListsUpTo(_, _)
ListsUpTo(S, n) ==
    IF n = 0 THEN {<<>>}
    ELSE LET shorter == ListsUpTo(S, n - 1)
         IN  shorter \cup {Append(q, x) : q \in {y \in shorter : Len(y) = n - 1},
                                          x \in S}

KeywordJsons ==
    {[kind |-> "none", v |-> <<>>], [kind |-> "str", v |-> <<"a">>]}
    \cup {[kind |-> "list", v |-> q] : q \in ListsUpTo(KeywordTexts, MaxKeywords)}

LocationJsons ==
    {[kind |-> "none", v |-> <<>>], [kind |-> "list", v |-> <<>>],
     [kind |-> "list", v |-> <<<<"A">>>>], [kind |-> "list", v |-> <<<<>>, <<"b">>>>]}

JobSalaries == {NoneInt, 0, 5}

UserSalaries == {NoneInt, 0, 4}

InitMatch ==
    /\ \E t \in MatchTitles, d \in MatchDescriptions, l \in MatchLocations,
          jmin \in JobSalaries, jmax \in JobSalaries,
          kw \in KeywordJsons, lc \in LocationJsons,
          umin \in UserSalaries, umax \in UserSalaries :
          call = [op |-> "match_job_to_user",
                  job |-> [title |-> t, description |-> d, location |-> l,
                           salary_annual_min |-> jmin,
                           salary_annual_max |-> jmax],
                  criteria |-> [keywords_json |-> kw, locations_json |-> lc,
                                min_salary |-> umin, max_salary |-> umax]]
    /\ ret = NoCall
    /\ jobs = <<>>
    /\ now = 0
    /\ last = NoCall
    /\ OrchIdle
    /\ MatchIdle

ApplyMatch ==
    /\ ret = NoCall
    /\ call.op = "match_job_to_user"
    /\ ret' = [op |-> call.op, r |-> match_job_to_user(call.job, call.criteria)]
    /\ UNCHANGED <<matchVars, call, jobs, now, last, orchVars>>

NextMatch == ApplyMatch

SpecMatch == InitMatch /\ [][NextMatch]_vars

Matched == ret.op = "match_job_to_user"

JobHasNoSalary ==
    call.job.salary_annual_min = NoneInt /\ call.job.salary_annual_max = NoneInt

NoSalaryPreference ==
    call.criteria.min_salary = NoneInt /\ call.criteria.max_salary = NoneInt

\* C9: for every job and criteria match_job_to_user returns without raising
\* an integer total in [0,100] equal to the sum of the four components, with
\* title in [0,40], description in [0,30], location and salary in {0,15}.
C9_ScoreInRangeNoRaise ==
    Matched =>
        /\ ~ret.r.raised
        /\ ret.r.total \in 0..100
        /\ ret.r.total = ret.r.title_score + ret.r.description_score
                           + ret.r.location_score + ret.r.salary_score
        /\ ret.r.title_score \in 0..WEIGHT_TITLE_KEYWORDS
        /\ ret.r.description_score \in 0..WEIGHT_DESCRIPTION_KEYWORDS
        /\ ret.r.location_score \in {0, WEIGHT_LOCATION}
        /\ ret.r.salary_score \in {0, WEIGHT_SALARY}

NewSession ==
    [pending |-> <<>>, inserted |-> <<>>, dirty |-> {}, touched |-> {},
     broken |-> FALSE]

BrokenSession ==
    [pending |-> <<>>, inserted |-> <<>>, dirty |-> {}, touched |-> {},
     broken |-> TRUE]

\* the session has flushed writes it has not committed
Writing(S) == S.inserted # <<>> \/ S.touched # {}

\* the session's next flush writes
NeedsWrite(S) == ~S.broken /\ (S.pending # <<>> \/ S.dirty # {})

\* the adapter registry, in the order the orchestrator iterates it
SCRAPERS == <<"doda", "green", "indeed", "wantedly">>

\* each adapter class's job_board_name
job_board_name(name) ==
    CASE name = "doda" -> <<"d">>
      [] name = "green" -> <<"g">>
      [] name = "indeed" -> <<"i">>
      [] name = "wantedly" -> <<"w">>

BoardG == job_board_name("green")

BoardI == job_board_name("indeed")

\* a scraped posting: the job_data fields that ingestion reads
Posting(t, c, u, b) == [title |-> t, company |-> c, url |-> u, job_board |-> b]

P1 == Posting(<<"a">>, <<"a">>, "u1", BoardG)

\* another URL, the fingerprint of P1
P2 == Posting(<<"A">>, <<KK, "a">>, "u2", BoardG)

\* the URL of P1, another fingerprint
P3 == Posting(<<"a", "a">>, <<"a">>, "u1", BoardG)

P4 == Posting(<<"a", "a">>, <<"a">>, "u3", BoardI)

\* what an adapter's search finds: posting 1 is listed under the same
\* absolute URL by every board, posting 2 under a URL of the board
Found(name, k) ==
    IF k = 1
    THEN Posting(<<"a">>, <<"a">>, "u1", job_board_name(name))
    ELSE Posting(<<"a", "a">>, <<"a">>, name, job_board_name(name))

Postings ==
    {P1, P2, P3, P4} \cup
    {Found(SCRAPERS[i], k) : i \in 1..Len(SCRAPERS), k \in {1, 2}}

\* generate_fingerprint(title, company, job_board) of each posting
PostingFingerprint ==
    [p \in Postings |-> generate_fingerprint(p.title, p.company, p.job_board)]

NoStats == [total_scraped |-> 0, new_jobs |-> 0, duplicates |-> 0, errors |-> 0]

\* Job(...) as both ingestion loops build it; is_active takes its default
NewRow(job_data, fingerprint, now_s) ==
    [title |-> job_data.title, company |-> job_data.company,
     url |-> job_data.url, job_board |-> job_data.job_board,
     fingerprint |-> fingerprint, last_seen_at |-> now_s, is_active |-> TRUE]

\* the first position of q that satisfies Test, 0 when there is none
FirstIndex(q, Test(_)) ==
    IF \E i \in 1..Len(q) : Test(q[i])
    THEN CHOOSE i \in 1..Len(q) :
            /\ Test(q[i])
            /\ \A j \in 1..(i - 1) : ~Test(q[j])
    ELSE 0

\* a bug the deduplication claims must detect: no fingerprint lookup
FindDuplicateByUrlOnly(view, url, fingerprint) ==
    FirstIndex(view, LAMBDA r : r.url = url)

\* a variant that looks the fingerprint up before the URL
FindDuplicateFingerprintFirst(view, url, fingerprint) ==
    LET byFingerprint == FirstIndex(view, LAMBDA r : r.fingerprint = fingerprint)
    IN  IF byFingerprint # 0 THEN byFingerprint
        ELSE FirstIndex(view, LAMBDA r : r.url = url)

\* find_duplicate_job: the URL match, else the first fingerprint match
find_duplicate_job(view, url, fingerprint) ==
    LET byUrl == FirstIndex(view, LAMBDA r : r.url = url)
    IN  IF byUrl # 0 THEN byUrl
        ELSE FirstIndex(view, LAMBDA r : r.fingerprint = fingerprint)

\* the unique constraint on jobs.url, checked when a row is flushed
RECURSIVE UrlsDistinct(_, _)
UrlsDistinct(view, rows) ==
    IF rows = <<>> THEN TRUE
    ELSE /\ \A i \in 1..Len(view) : view[i].url # Head(rows).url
         /\ UrlsDistinct(Append(view, Head(rows)), Tail(rows))

\* Session.flush: INSERT the pending rows, UPDATE the dirty ones; an
\* IntegrityError rolls the transaction back and leaves the session waiting
\* for rollback()
Flush(db, S) ==
    IF S.broken THEN S
    ELSE IF UrlsDistinct(db \o S.inserted, S.pending)
         THEN [S EXCEPT !.inserted = S.inserted \o S.pending,
                        !.pending = <<>>,
                        !.touched = S.touched \cup S.dirty,
                        !.dirty = {}]
         ELSE BrokenSession

\* the body of the "for job_data in jobs" loop, shared by store_jobs and
\* run_scraper: fingerprint, lookup (with its autoflush), refresh or add;
\* an exception raised by the lookup is counted as an error
IngestOne(db, S, st, job_data, now_s) ==
    LET fingerprint == PostingFingerprint[job_data]
        F == Flush(db, S)
        view == db \o F.inserted
        existing == find_duplicate_job(view, job_data.url, fingerprint)
    IN  IF F.broken
        THEN [S |-> F, st |-> [st EXCEPT !.errors = @ + 1]]
        ELSE IF existing # 0
        THEN [S |-> [F EXCEPT !.dirty =
                        IF existing <= Len(db) THEN @ \cup {existing} ELSE @],
              st |-> [st EXCEPT !.duplicates = @ + 1]]
        ELSE [S |-> [F EXCEPT !.pending =
                        Append(@, NewRow(job_data, fingerprint, now_s))],
              st |-> [st EXCEPT !.new_jobs = @ + 1]]

RECURSIVE IngestAll(_, _, _, _, _)
IngestAll(db, S, st, batch, now_s) ==
    IF batch = <<>> THEN [S |-> S, st |-> st]
    ELSE LET one == IngestOne(db, S, st, Head(batch), now_s)
         IN  IngestAll(db, one.S, one.st, Tail(batch), now_s)

\* session.commit(): flush, then make the writes durable.  dbOk = FALSE is a
\* commit the database refuses (connection lost, disk full, ...).
CommitOk(db, S, dbOk) == dbOk /\ ~Flush(db, S).broken

Committed(db, S, now_s) ==
    LET F == Flush(db, S)
    IN  [i \in 1..Len(db) |->
            IF i \in F.touched
            THEN [db[i] EXCEPT !.last_seen_at = now_s, !.is_active = TRUE]
            ELSE db[i]] \o F.inserted

\* a variant whose failed commit drops the new-job count without adding it
\* to the errors
StoreJobsForgetsFailed(db, batch, now_s, dbOk) ==
    LET run == IngestAll(db, NewSession,
                         [NoStats EXCEPT !.total_scraped = Len(batch)],
                         batch, now_s)
    IN  IF CommitOk(db, run.S, dbOk)
        THEN [stats |-> run.st, committed |-> TRUE,
              db |-> Committed(db, run.S, now_s)]
        ELSE [stats |-> [run.st EXCEPT !.new_jobs = 0],
              committed |-> FALSE, db |-> db]

\* store_jobs(jobs, session, source): the statistics it returns and the
\* table it leaves
store_jobs(db, batch, now_s, dbOk) ==
    LET run == IngestAll(db, NewSession,
                         [NoStats EXCEPT !.total_scraped = Len(batch)],
                         batch, now_s)
    IN  IF CommitOk(db, run.S, dbOk)
        THEN [stats |-> run.st, committed |-> TRUE,
              db |-> Committed(db, run.S, now_s)]
        ELSE [stats |-> [run.st EXCEPT !.errors = @ + run.st.new_jobs,
                                       !.new_jobs = 0],
              committed |-> FALSE, db |-> db]

\* a bug the sweep claims must detect: already inactive records selected too
StaleSelectedAnyActivity(r, cutoff, job_board) ==
    /\ r.last_seen_at # NoneInt
    /\ r.last_seen_at < cutoff
    /\ (job_board # NoneText /\ job_board # <<>>) => r.job_board = job_board

\* mark_stale_jobs_inactive: one bulk UPDATE; NULL last_seen_at never
\* compares below the cutoff; "if job_board:" skips None and ""
StaleSelected(r, cutoff, job_board) ==
    /\ r.is_active
    /\ r.last_seen_at # NoneInt
    /\ r.last_seen_at < cutoff
    /\ (job_board # NoneText /\ job_board # <<>>) => r.job_board = job_board

mark_stale_jobs_inactive(db, now_s, days_threshold, job_board) ==
    LET cutoff == now_s - days_threshold
        hit == {i \in 1..Len(db) : StaleSelected(db[i], cutoff, job_board)}
    IN  [db |-> [i \in 1..Len(db) |->
                    IF i \in hit THEN [db[i] EXCEPT !.is_active = FALSE]
                    ELSE db[i]],
         rowcount |-> Cardinality(hit)]

\* a bug the fingerprint claims must detect: title and company swapped
BackfillValueSwapped(r) == generate_fingerprint(r.company, r.title, r.job_board)

\* backfill_fingerprints
BackfillValue(r) == generate_fingerprint(r.title, r.company, r.job_board)

\* a variant that recomputes the fingerprint of every row
BackfillEveryRow(db) ==
    [db |-> [i \in 1..Len(db) |-> [db[i] EXCEPT !.fingerprint = BackfillValue(db[i])]],
     count |-> Len(db)]

backfill_fingerprints(db) ==
    LET lacking == {i \in 1..Len(db) : db[i].fingerprint = NoneText}
    IN  [db |-> [i \in 1..Len(db) |->
                    IF i \in lacking
                    THEN [db[i] EXCEPT !.fingerprint = BackfillValue(db[i])]
                    ELSE db[i]],
         count |-> Cardinality(lacking)]

(***************************************************************************)
(* Specification Spec: one process ingesting batches with store_jobs and   *)
(* running the maintenance commands, while the clock advances.             *)
(***************************************************************************)
MaxTime == 2

MaxOps == 3

\* the batches a scraper hands to ingestion: empty, single postings, and
\* pairs that repeat a posting, a URL or a fingerprint within the batch
Batches ==
    {<<>>, <<P1>>, <<P2>>, <<P3>>, <<P4>>,
     <<P1, P1>>, <<P1, P2>>, <<P2, P3>>, <<P3, P1>>, <<P4, P2>>}

\* a row stored before the fingerprint and last_seen_at columns existed
LegacyRow ==
    [title |-> <<"A", "a">>, company |-> <<"a">>, url |-> "u0",
     job_board |-> BoardI, fingerprint |-> NoneText,
     last_seen_at |-> NoneInt, is_active |-> TRUE]

DayThresholds == {0, 1}

BoardFilters == {NoneText, <<>>, BoardG, BoardI}

\* whether the table holds a record for the posting (by URL or fingerprint)
Stored(db, p) == find_duplicate_job(db, p.url, PostingFingerprint[p]) # 0

Init ==
    /\ call = NoCall
    /\ ret = NoCall
    /\ jobs \in {<<>>, <<LegacyRow>>}
    /\ now = 0
    /\ last = [n |-> 0, op |-> "none"]
    /\ OrchIdle
    /\ MatchIdle

Tick ==
    /\ now < MaxTime
    /\ now' = now + 1
    /\ UNCHANGED <<matchVars, call, ret, jobs, last, orchVars>>

StoreJobs ==
    /\ last.n < MaxOps
    /\ \E batch \in Batches, dbOk \in BOOLEAN :
          LET out == store_jobs(jobs, batch, now, dbOk)
          IN  /\ jobs' = out.db
              /\ last' = [n |-> last.n + 1, op |-> "store_jobs",
                          batch |-> batch, stats |-> out.stats,
                          committed |-> out.committed,
                          fresh |-> [i \in 1..Len(batch) |-> ~Stored(jobs, batch[i])]]
    /\ UNCHANGED <<matchVars, call, ret, now, orchVars>>

MarkStale ==
    /\ last.n < MaxOps
    /\ \E days \in DayThresholds, board \in BoardFilters :
          LET out == mark_stale_jobs_inactive(jobs, now, days, board)
          IN  /\ jobs' = out.db
              /\ last' = [n |-> last.n + 1, op |-> "mark_stale_jobs_inactive",
                          days |-> days, job_board |-> board,
                          count |-> out.rowcount]
    /\ UNCHANGED <<matchVars, call, ret, now, orchVars>>

Backfill ==
    /\ last.n < MaxOps
    /\ LET out == backfill_fingerprints(jobs)
       IN  /\ jobs' = out.db
           /\ last' = [n |-> last.n + 1, op |-> "backfill_fingerprints",
                       count |-> out.count]
    /\ UNCHANGED <<matchVars, call, ret, now, orchVars>>

Next == Tick \/ StoreJobs \/ MarkStale \/ Backfill

Spec == Init /\ [][Next]_vars

(***************************************************************************)
(* Claims on ingestion and maintenance, checked under Spec.                *)
(***************************************************************************)
SameLogical(p, q) ==
    p.url = q.url \/ PostingFingerprint[p] = PostingFingerprint[q]

RowsWithUrl(db, u) == {i \in 1..Len(db) : db[i].url = u}

RowsWithFingerprint(db, f) == {i \in 1..Len(db) : db[i].fingerprint = f}

OneRecordFor(db, p) ==
    /\ Cardinality(RowsWithUrl(db, p.url)) = 1
    /\ Cardinality(RowsWithFingerprint(db, PostingFingerprint[p])) = 1

\* exactly row k of the table was refreshed: last_seen_at = now, is_active
Refreshed(db, db2, k, t) ==
    /\ Len(db2) = Len(db)
    /\ db2[k] = [db[k] EXCEPT !.last_seen_at = t, !.is_active = TRUE]
    /\ \A i \in 1..Len(db) : i # k => db2[i] = db[i]

StoreStep == last'.n = last.n + 1 /\ last'.op = "store_jobs"

\* a posting not yet stored, ingested alone, is counted as added
C1_FirstAdded ==
    (/\ StoreStep
     /\ Len(last'.batch) = 1
     /\ last'.fresh[1]
     /\ last'.committed)
    => /\ last'.stats = [total_scraped |-> 1, new_jobs |-> 1,
                         duplicates |-> 0, errors |-> 0]
       /\ Len(jobs') = Len(jobs) + 1
       /\ OneRecordFor(jobs', last'.batch[1])

\* the next store_jobs call, with a posting of the same URL or fingerprint
C1_SecondDuplicate ==
    (/\ StoreStep
     /\ last.op = "store_jobs"
     /\ Len(last.batch) = 1
     /\ last.fresh[1]
     /\ last.committed
     /\ Len(last'.batch) = 1
     /\ SameLogical(last.batch[1], last'.batch[1]))
    => /\ last'.stats = [total_scraped |-> 1, new_jobs |-> 0,
                         duplicates |-> 1, errors |-> 0]
       /\ OneRecordFor(jobs', last.batch[1])
       /\ IF last'.committed
          THEN \E k \in 1..Len(jobs) :
                  /\ \/ jobs[k].url = last'.batch[1].url
                     \/ jobs[k].fingerprint = PostingFingerprint[last'.batch[1]]
                  /\ Refreshed(jobs, jobs', k, now)
          ELSE jobs' = jobs

\* both occurrences in one batch
C1_SameBatch ==
    (/\ StoreStep
     /\ Len(last'.batch) = 2
     /\ last'.fresh[1]
     /\ SameLogical(last'.batch[1], last'.batch[2]))
    => IF last'.committed
       THEN /\ last'.stats = [total_scraped |-> 2, new_jobs |-> 1,
                              duplicates |-> 1, errors |-> 0]
            /\ jobs' = Append(jobs, NewRow(last'.batch[1],
                                           PostingFingerprint[last'.batch[1]],
                                           now))
            /\ OneRecordFor(jobs', last'.batch[1])
       ELSE jobs' = jobs

\* C1: ingesting a posting that is not stored yet and then ingesting again a
\* posting with the same URL, or with another URL and the same fingerprint,
\* leaves exactly one record for it: the first is counted as added, the
\* second as duplicate, no row is inserted for it and the only change is
\* last_seen_at = now and is_active = true on the record found (nothing at
\* all when the commit is refused); the same within one batch.
C1_IngestTwiceOneRecord ==
    [][C1_FirstAdded /\ C1_SecondDuplicate /\ C1_SameBatch]_vars

\* P1 was stored by one call and P2 (other URL, same fingerprint) was then
\* found to be its duplicate by the next call, which refreshed P1's record
C1_Witness ==
    /\ last.n = 2
    /\ last.op = "store_jobs"
    /\ last.batch = <<P2>>
    /\ last.committed
    /\ last.stats.duplicates = 1
    /\ now > 0
    /\ jobs = <<NewRow(P1, PostingFingerprint[P1], now)>>

MarkStaleStep == last'.n = last.n + 1 /\ last'.op = "mark_stale_jobs_inactive"

\* the condition C6 states for a record to be flipped (an empty-string
\* filter is no filter)
C6_MustFlip(r, days, job_board) ==
    /\ r.is_active
    /\ r.last_seen_at # NoneInt
    /\ r.last_seen_at < now - days
    /\ (job_board # NoneText /\ job_board # <<>>) => r.job_board = job_board

\* C6: mark_stale_jobs_inactive(days, filter) sets is_active = false on
\* exactly the active records last seen before now - days (of the filter's
\* source when one is given), leaves every other record unchanged in all
\* fields, and returns the number of records flipped.
C6_SweepFlipsExactlyStale ==
    [][MarkStaleStep =>
        /\ Len(jobs') = Len(jobs)
        /\ \A i \in 1..Len(jobs) :
              jobs'[i] = IF C6_MustFlip(jobs[i], last'.days, last'.job_board)
                         THEN [jobs[i] EXCEPT !.is_active = FALSE]
                         ELSE jobs[i]
        /\ last'.count =
              Cardinality({i \in 1..Len(jobs) :
                  C6_MustFlip(jobs[i], last'.days, last'.job_board)})]_vars

\* a filtered sweep flipped one record and left a stale record of another
\* source and a legacy record untouched
C6_Witness ==
    /\ last.op = "mark_stale_jobs_inactive"
    /\ last.job_board = BoardG
    /\ last.count = 1
    /\ \E i, j \in 1..Len(jobs) :
          /\ ~jobs[i].is_active /\ jobs[i].job_board = BoardG
          /\ jobs[j].is_active /\ jobs[j].job_board = BoardI
          /\ jobs[j].last_seen_at # NoneInt
          /\ jobs[j].last_seen_at < now - last.days

\* C7: every record that has a fingerprint has the fingerprint that
\* generate_fingerprint gives for its stored title, company and source.
C7_FingerprintOfStoredFields ==
    \A i \in 1..Len(jobs) :
        jobs[i].fingerprint # NoneText =>
            jobs[i].fingerprint =
                generate_fingerprint(jobs[i].title, jobs[i].company,
                                     jobs[i].job_board)

\* a backfilled legacy record next to an ingested record that was swept
C7_Witness ==
    \E i, j \in 1..Len(jobs) :
        /\ jobs[i].url = LegacyRow.url
        /\ jobs[i].fingerprint # NoneText
        /\ jobs[j].url # LegacyRow.url
        /\ ~jobs[j].is_active

(***************************************************************************)
(* Orchestration: run_all_scrapers and the run_scraper calls it makes, in  *)
(* the calling thread (sequential mode) or on the workers of a             *)
(* ThreadPoolExecutor (parallel mode).  Every run_scraper call has its own *)
(* session.  A step of a call is its search, one iteration of its          *)
(* ingestion loop, or its commit; steps of different calls interleave.     *)
(***************************************************************************)
MaxWorkers == 2

Names == {SCRAPERS[i] : i \in 1..Len(SCRAPERS)}

\* error_message = None
NoMessage == "None"

NoOut == [result |-> NoCall]

\* the ScraperResult dataclass, without its duration
ScraperResult(name, success, scraped, added, dups, errors, message) ==
    [name |-> name, success |-> success, jobs_scraped |-> scraped,
     jobs_added |-> added, duplicates |-> dups, errors |-> errors,
     error_message |-> message]

\* run_scraper's "except Exception as e": a failed result carrying str(e)
RunScraperFailure(name, message) ==
    [result |-> ScraperResult(name, FALSE, 0, 0, 0, 0, message)]

\* run_scraper's normal return
RunScraperSuccess(name, fetched, st) ==
    [result |-> ScraperResult(name, TRUE, Len(fetched), st.new_jobs,
                             st.duplicates, st.errors, NoMessage)]

\* a run_scraper call that has not started
IdleScraper ==
    [pc |-> "idle", fetched |-> <<>>, pos |-> 0, S |-> NewSession,
     st |-> NoStats, out |-> NoOut]

\* a run_scraper call that has returned or raised: its locals are gone
Finished(out) == [IdleScraper EXCEPT !.pc = "done", !.out = out]

\* str(e) of what a search raises
SearchError == "Timeout 30000ms exceeded"

\* what scraper.search(...) can do: raise, or return a list of postings
SearchOutcomes(name) ==
    {[raises |-> TRUE, message |-> SearchError, jobs |-> <<>>]}
    \cup
    {[raises |-> FALSE, message |-> NoMessage, jobs |-> b] :
        b \in {<<>>, <<Found(name, 1), Found(name, 2)>>}}

\* the posting of an adapter that no other adapter lists
OwnPosting(name) == Found(name, 2)

\* what the search of a deterministic adapter can be fixed to: it raises,
\* or returns its own posting, alone or behind the posting every board lists
FixedOutcomes(name) ==
    {o \in SearchOutcomes(name) : o.raises \/ o.jobs # <<>>} \cup
    {[raises |-> FALSE, message |-> NoMessage, jobs |-> <<OwnPosting(name)>>]}

\* what scraper.search(...) does in this run: anything, unless the call of
\* run_all_scrapers was given deterministic adapters
SearchChoices(name) ==
    IF call = NoCall THEN SearchOutcomes(name) ELSE {call.search[name]}

\* whether the database accepts the commit of the adapter's session
CommitChoices(name) ==
    IF call = NoCall THEN BOOLEAN ELSE {call.commit[name]}

\* run_scraper up to the end of the search
SearchStep(L, name, outcome) ==
    IF outcome.raises
    THEN Finished(RunScraperFailure(name, outcome.message))
    ELSE [L EXCEPT !.pc = "store", !.fetched = outcome.jobs, !.pos = 1]

\* one iteration of run_scraper's ingestion loop
IngestStep(db, L, now_s) ==
    LET one == IngestOne(db, L.S, L.st, L.fetched[L.pos], now_s)
    IN  [L EXCEPT !.S = one.S, !.st = one.st, !.pos = @ + 1]

\* str(e) of what session.commit() raises: the session waits for a rollback
\* since a failed autoflush, or the flush of the commit fails, or the
\* database refuses the commit
CommitError(db, S, dbOk) ==
    IF S.broken THEN "This Session's transaction has been rolled back"
    ELSE IF Flush(db, S).broken THEN "UNIQUE constraint failed: jobs.url"
    ELSE "unable to commit"

\* a bug the isolation claims must detect: the writes of a failed commit
\* are not rolled back
CommitStepKeepsWrites(db, L, name, now_s, dbOk) ==
    IF CommitOk(db, L.S, dbOk)
    THEN [db |-> Committed(db, L.S, now_s),
          L |-> Finished(RunScraperSuccess(name, L.fetched, L.st))]
    ELSE [db |-> IF L.S.broken THEN db
                 ELSE Committed(db, [L.S EXCEPT !.pending = <<>>], now_s),
          L |-> Finished(RunScraperFailure(name, CommitError(db, L.S, dbOk)))]

\* session.commit(), session.close() and the return of run_scraper
CommitStep(db, L, name, now_s, dbOk) ==
    IF CommitOk(db, L.S, dbOk)
    THEN [db |-> Committed(db, L.S, now_s),
          L |-> Finished(RunScraperSuccess(name, L.fetched, L.st))]
    ELSE [db |-> db,
          L |-> Finished(RunScraperFailure(name, CommitError(db, L.S, dbOk)))]

\* enabled_scrapers, in registry order
Enabled(cfg) == SelectSeq(SCRAPERS, LAMBDA n : cfg.enabled[n])

EnabledNames(cfg) == {n \in Names : cfg.enabled[n]}

\* "if use_parallel and len(enabled_scrapers) > 1"
ParallelMode(cfg) == cfg.parallel /\ Len(Enabled(cfg)) > 1

\* position of an adapter in the registry
Rank(name) == CHOOSE i \in 1..Len(SCRAPERS) : SCRAPERS[i] = name

Running(sc) == {n \in Names : sc[n].pc \in {"search", "store"}}

\* a bug the reporting claims must detect: the collection loop ends at the
\* first completed future
AsCompletedFirstOnly(sc, cfg) ==
    \E n \in EnabledNames(cfg) : sc[n].pc = "collected"

\* a variant in which the loops also end at the first failed result
AsCompletedUntilFailure(sc, cfg) ==
    \/ \A n \in EnabledNames(cfg) : sc[n].pc = "collected"
    \/ \E n \in EnabledNames(cfg) :
          sc[n].pc = "collected" /\ ~sc[n].out.result.success

\* the loops over the futures / over enabled_scrapers have ended
AsCompletedExhausted(sc, cfg) ==
    \A n \in EnabledNames(cfg) : sc[n].pc = "collected"

\* the write lock of the database: a flush that writes waits for the other
\* sessions' uncommitted writes
LockFree(sc, name) == \A n \in Names \ {name} : ~Writing(sc[n].S)

\* the configurations: enabled flags, parallel flag, worker count
Configs ==
    {[enabled |-> e, parallel |-> p, max_workers |-> w] :
        e \in [Names -> BOOLEAN], p \in BOOLEAN, w \in 0..MaxWorkers}

\* a record stored by an earlier run and since swept
OldRow ==
    [NewRow(Found("doda", 1), PostingFingerprint[Found("doda", 1)], 0)
        EXCEPT !.is_active = FALSE]

\* the state at the call of run_all_scrapers; the shadow run leaves adapter
\* X out ("none": no adapter)
OrchStart(cfgs, Xs) ==
    /\ call = NoCall
    /\ ret = NoCall
    /\ last = NoCall
    /\ now = 1
    /\ MatchIdle
    /\ jobs \in {<<>>, <<OldRow>>}
    /\ config \in cfgs
    /\ opc = "start"
    /\ scraper = [n \in Names |-> IdleScraper]
    /\ results = <<>>
    /\ \E X \in Xs :
          /\ X \in Names => config.enabled[X]
          /\ shadow = [X |-> X, jobs |-> jobs,
                       scraper |-> [n \in Names |-> IdleScraper]]

InitOrch == OrchStart(Configs, {"none"})

\* the shadow takes the step that adapter name takes, unless it is left out
ShadowStep(name, sjobs, L) ==
    IF name = shadow.X THEN shadow
    ELSE [shadow EXCEPT !.jobs = sjobs, !.scraper[name] = L]

\* run_all_scrapers up to the dispatch of the adapters
Begin ==
    /\ opc = "start"
    /\ opc' = IF Len(Enabled(config)) = 0 THEN "returned"
              ELSE IF ~ParallelMode(config) THEN "sequential"
              ELSE IF config.max_workers <= 0 THEN "raised"
              ELSE "parallel"
    /\ scraper' = IF ParallelMode(config) /\ config.max_workers > 0
                  THEN [n \in Names |->
                          IF config.enabled[n]
                          THEN [scraper[n] EXCEPT !.pc = "queued"]
                          ELSE scraper[n]]
                  ELSE scraper
    /\ shadow' = [shadow EXCEPT !.scraper =
                    [n \in Names |->
                        IF n # shadow.X THEN scraper'[n] ELSE @[n]]]
    /\ UNCHANGED <<matchVars, call, ret, jobs, now, last, config, results>>

\* a run_scraper call starts: the next adapter of the sequential loop, or
\* the head of the executor's queue on a free worker
Start(name) ==
    /\ \/ /\ opc = "sequential"
          /\ config.enabled[name]
          /\ scraper[name].pc = "idle"
          /\ \A n \in EnabledNames(config) :
                Rank(n) < Rank(name) => scraper[n].pc = "collected"
       \/ /\ opc = "parallel"
          /\ scraper[name].pc = "queued"
          /\ \A n \in EnabledNames(config) :
                Rank(n) < Rank(name) => scraper[n].pc # "queued"
          /\ Cardinality(Running(scraper)) < config.max_workers
    /\ scraper' = [scraper EXCEPT ![name].pc = "search"]
    /\ shadow' = ShadowStep(name, shadow.jobs,
                            [shadow.scraper[name] EXCEPT !.pc = "search"])
    /\ UNCHANGED <<matchVars, call, ret, jobs, now, last, config, opc, results>>

Search(name) ==
    /\ scraper[name].pc = "search"
    /\ \E outcome \in SearchChoices(name) :
          /\ scraper' = [scraper EXCEPT
                            ![name] = SearchStep(@, name, outcome)]
          /\ shadow' = ShadowStep(name, shadow.jobs,
                            SearchStep(shadow.scraper[name], name, outcome))
    /\ UNCHANGED <<matchVars, call, ret, jobs, now, last, config, opc, results>>

Ingest(name) ==
    /\ scraper[name].pc = "store"
    /\ scraper[name].pos <= Len(scraper[name].fetched)
    /\ NeedsWrite(scraper[name].S) => LockFree(scraper, name)
    /\ scraper' = [scraper EXCEPT ![name] = IngestStep(jobs, @, now)]
    /\ shadow' = ShadowStep(name, shadow.jobs,
                            IngestStep(shadow.jobs, shadow.scraper[name], now))
    /\ UNCHANGED <<matchVars, call, ret, jobs, now, last, config, opc, results>>

Commit(name) ==
    /\ scraper[name].pc = "store"
    /\ scraper[name].pos > Len(scraper[name].fetched)
    /\ NeedsWrite(scraper[name].S) => LockFree(scraper, name)
    /\ \E dbOk \in CommitChoices(name) :
          LET real == CommitStep(jobs, scraper[name], name, now, dbOk)
              twin == CommitStep(shadow.jobs, shadow.scraper[name], name,
                                 now, dbOk)
          IN  /\ jobs' = real.db
              /\ scraper' = [scraper EXCEPT ![name] = real.L]
              /\ shadow' = ShadowStep(name, twin.db, twin.L)
    /\ UNCHANGED <<matchVars, call, ret, now, last, config, opc, results>>

\* the orchestrator receives what a run_scraper call returned (the call
\* catches every Exception, so future.result() has nothing to raise)
Collect(name) ==
    /\ opc \in {"sequential", "parallel"}
    /\ scraper[name].pc = "done"
    /\ results' = Append(results, scraper[name].out.result)
    /\ scraper' = [scraper EXCEPT ![name].pc = "collected"]
    /\ shadow' = ShadowStep(name, shadow.jobs,
                            [shadow.scraper[name] EXCEPT !.pc = "collected"])
    /\ UNCHANGED <<matchVars, call, ret, jobs, now, last, config, opc>>

\* "return result"
Return ==
    /\ opc \in {"sequential", "parallel"}
    /\ AsCompletedExhausted(scraper, config)
    /\ opc' = "returned"
    /\ UNCHANGED <<matchVars, call, ret, jobs, now, last, config, scraper, results,
                   shadow>>

NextOrch ==
    \/ Begin
    \/ \E name \in Names : Start(name)
    \/ \E name \in Names : Search(name)
    \/ \E name \in Names : Ingest(name)
    \/ \E name \in Names : Commit(name)
    \/ \E name \in Names : Collect(name)
    \/ Return

SpecOrch == InitOrch /\ [][NextOrch]_vars

\* OrchestratorResult.successful_scrapers / failed_scrapers
successful_scrapers(rs) == Cardinality({i \in 1..Len(rs) : rs[i].success})

failed_scrapers(rs) == Cardinality({i \in 1..Len(rs) : ~rs[i].success})

\* the configurations of the isolation runs: three adapters enabled (the one
\* left out of the shadow run and two more) and a worker count the executor
\* accepts
IsoConfigs ==
    {c \in Configs : Cardinality(EnabledNames(c)) = 3 /\ c.max_workers > 0}

\* the run of run_all_scrapers next to the run that leaves one adapter out
InitIso == OrchStart(IsoConfigs, Names)

SpecIso == InitIso /\ [][NextOrch]_vars

(***************************************************************************)
(* Claims on orchestration, checked under SpecOrch and SpecIso.            *)
(***************************************************************************)
\* the result reported for an adapter
ResultOf(name) ==
    results[CHOOSE i \in 1..Len(results) : results[i].name = name]

Settled(name) == scraper[name].pc \in {"done", "collected"}

\* C2: when adapters running in parallel ingest the same posting, storage
\* ends with one record for it and no adapter is reported failed for having
\* lost the insert: an adapter fails only when its own search raises or the
\* database refuses its commit.
C2_RaceLoserCountedDuplicate ==
    /\ \A i, j \in 1..Len(jobs) : jobs[i].url = jobs[j].url => i = j
    /\ \A n \in Names :
          (Settled(n) /\ ~scraper[n].out.result.success) =>
              scraper[n].out.result.error_message
                  \in {SearchError, "unable to commit"}

\* C3: run_all_scrapers never raises, and the report it returns holds
\* exactly one result per enabled adapter and none for a disabled one, so
\* that successful + failed is the number of enabled adapters.
C3_OneResultPerEnabled ==
    /\ opc # "raised"
    /\ opc = "returned" =>
          /\ Len(results) = Cardinality(EnabledNames(config))
          /\ \A n \in EnabledNames(config) :
                \E i \in 1..Len(results) : results[i].name = n
          /\ successful_scrapers(results) + failed_scrapers(results)
                = Cardinality(EnabledNames(config))

\* the same statement for the worker counts ThreadPoolExecutor accepts
OneResultPerEnabledWithWorkers ==
    (ParallelMode(config) => config.max_workers > 0) => C3_OneResultPerEnabled

\* C4: when the adapter left out of the shadow run fails, its result is
\* unsuccessful with a non-empty message, every other adapter's result is
\* the one it has in the shadow run, and so is the table.
C4_FailureIsolated ==
    (/\ opc = "returned"
     /\ shadow.X \in Names
     /\ ~ResultOf(shadow.X).success)
    => /\ ResultOf(shadow.X).error_message \notin {NoMessage, ""}
       /\ \A n \in EnabledNames(config) \ {shadow.X} :
             ResultOf(n) = shadow.scraper[n].out.result
       /\ jobs = shadow.jobs

\* the commit of one adapter was refused after it had flushed a row, while
\* the two other adapters raced for the shared URL: one added the posting,
\* the other lost
C4_Witness ==
    /\ opc = "returned"
    /\ shadow.X \in Names
    /\ ParallelMode(config)
    /\ ResultOf(shadow.X).error_message = "unable to commit"
    /\ \E n, m \in EnabledNames(config) \ {shadow.X} :
          /\ ResultOf(n).success
          /\ ResultOf(n).jobs_added = 2
          /\ ~ResultOf(m).success
          /\ ResultOf(m) = shadow.scraper[m].out.result

\* C5: in parallel mode the report is returned only when every dispatched
\* run_scraper call has settled and its result is in the report.
C5_ReportAfterAllSettled ==
    (opc = "returned" /\ ParallelMode(config)) =>
        \A n \in EnabledNames(config) :
            /\ scraper[n].pc = "collected"
            /\ Cardinality({i \in 1..Len(results) : results[i].name = n}) = 1
            /\ ResultOf(n) = scraper[n].out.result

\* a parallel run of every adapter has returned; the results came in
\* another order than the registry's, a failed one among them
C5_Witness ==
    /\ opc = "returned"
    /\ ParallelMode(config)
    /\ Len(results) = Len(SCRAPERS)
    /\ results[1].name = SCRAPERS[Len(SCRAPERS)]
    /\ \E i \in 1..Len(results) : ~results[i].success

(***************************************************************************)
(* Matching runs: match_all_for_user over the tables "users",              *)
(* "user_criteria", "jobs" and "matched_jobs".  In SpecMatchAll a row of   *)
(* jobs is [title, description, location, salary_annual_min,               *)
(* salary_annual_max] (the columns the matcher reads) and its id is its    *)
(* position; a row of matched_jobs is [user_id, job_id, match_score].      *)
(***************************************************************************)
MaxJobs == 2

\* the ids in table "users"
Users == {1, 2}

\* the user ids a run is asked for: 3 is no user
UserIds == Users \cup {3}

\* the user has no row in user_criteria
NoCriteria == [keywords_json |-> NoCall]

CriteriaA ==
    [keywords_json |-> [kind |-> "list", v |-> << <<"a">> >>],
     locations_json |-> [kind |-> "list", v |-> << <<"a">> >>],
     min_salary |-> 4, max_salary |-> NoneInt]

CriteriaB ==
    [keywords_json |-> [kind |-> "list", v |-> << <<"b">> >>],
     locations_json |-> [kind |-> "none", v |-> <<>>],
     min_salary |-> 9, max_salary |-> NoneInt]

\* scores 60 against CriteriaA and 40 against CriteriaB
JobD ==
    [title |-> <<"b">>, description |-> <<"a">>, location |-> <<"a">>,
     salary_annual_min |-> 5, salary_annual_max |-> 5]

\* scores 40 against CriteriaA and 0 against CriteriaB
JobT ==
    [title |-> <<"a">>, description |-> NoneText, location |-> NoneText,
     salary_annual_min |-> NoneInt, salary_annual_max |-> NoneInt]

\* a salary minimum of 0 without a maximum: scoring it against a salary
\* preference raises
JobZ ==
    [title |-> <<"a">>, description |-> <<"a">>, location |-> <<"a">>,
     salary_annual_min |-> 0, salary_annual_max |-> NoneInt]

MatchJobs == {JobD, JobT, JobZ}

MatchCriteria == {CriteriaA, CriteriaB}

MinScores == {40, 41, 50}

\* match_job_to_user of each job against each criteria
ScoreOf ==
    [j \in MatchJobs |-> [c \in MatchCriteria |-> match_job_to_user(j, c)]]

\* match_score = score / 100.0, as the fraction it is
Hundredths(score) == [num |-> score, den |-> 100]

\* MatchSummary(user_id=user_id)
NewSummary(user_id) ==
    [user_id |-> user_id, total_jobs |-> 0, jobs_matched |-> 0,
     jobs_below_threshold |-> 0, new_matches |-> 0, existing_matches |-> 0]

\* the query for the MatchedJob of (user_id, job_id): its position, 0 if none
ExistingMatch(rows, user_id, job_id) ==
    IF \E i \in 1..Len(rows) :
          rows[i].user_id = user_id /\ rows[i].job_id = job_id
    THEN CHOOSE i \in 1..Len(rows) :
            /\ rows[i].user_id = user_id /\ rows[i].job_id = job_id
            /\ \A k \in 1..(i - 1) :
                  ~(rows[k].user_id = user_id /\ rows[k].job_id = job_id)
    ELSE 0

\* a bug the matching claims must detect: a match is always inserted
ThresholdStepAlwaysInserts(rows, sm, user_id, job_id, score, min_score) ==
    IF score >= min_score
    THEN [rows |-> Append(rows, [user_id |-> user_id, job_id |-> job_id,
                                 match_score |-> Hundredths(score)]),
          sm |-> [sm EXCEPT !.jobs_matched = @ + 1, !.new_matches = @ + 1]]
    ELSE [rows |-> rows, sm |-> [sm EXCEPT !.jobs_below_threshold = @ + 1]]

\* a bug the matching claims must detect: the boundary score is left out
ThresholdStepStrict(rows, sm, user_id, job_id, score, min_score) ==
    LET existing == ExistingMatch(rows, user_id, job_id)
    IN  IF score > min_score
        THEN IF existing # 0
             THEN [rows |-> [rows EXCEPT
                               ![existing].match_score = Hundredths(score)],
                   sm |-> [sm EXCEPT !.jobs_matched = @ + 1,
                                     !.existing_matches = @ + 1]]
             ELSE [rows |-> Append(rows, [user_id |-> user_id,
                                          job_id |-> job_id,
                                          match_score |-> Hundredths(score)]),
                   sm |-> [sm EXCEPT !.jobs_matched = @ + 1,
                                     !.new_matches = @ + 1]]
        ELSE [rows |-> rows,
              sm |-> [sm EXCEPT !.jobs_below_threshold = @ + 1]]

\* the body of "for job in jobs" after the scoring: rows is what the session
\* sees of matched_jobs (committed rows and its own additions)
ThresholdStep(rows, sm, user_id, job_id, score, min_score) ==
    LET existing == ExistingMatch(rows, user_id, job_id)
    IN  IF score >= min_score
        THEN IF existing # 0
             THEN [rows |-> [rows EXCEPT
                               ![existing].match_score = Hundredths(score)],
                   sm |-> [sm EXCEPT !.jobs_matched = @ + 1,
                                     !.existing_matches = @ + 1]]
             ELSE [rows |-> Append(rows, [user_id |-> user_id,
                                          job_id |-> job_id,
                                          match_score |-> Hundredths(score)]),
                   sm |-> [sm EXCEPT !.jobs_matched = @ + 1,
                                     !.new_matches = @ + 1]]
        ELSE [rows |-> rows,
              sm |-> [sm EXCEPT !.jobs_below_threshold = @ + 1]]

\* the loop over the jobs from position i: a raise of match_job_to_user ends it
RECURSIVE MatchLoop(_, _, _, _, _, _, _)
MatchLoop(table, crit, rows, sm, user_id, min_score, i) ==
    IF i > Len(table) THEN [raised |-> FALSE, rows |-> rows, summary |-> sm]
    ELSE LET r == ScoreOf[table[i]][crit]
         IN  IF r.raised
             THEN [raised |-> TRUE, rows |-> rows, summary |-> sm]
             ELSE LET step == ThresholdStep(rows, sm, user_id, i, r.total,
                                            min_score)
                  IN  MatchLoop(table, crit, step.rows, step.sm, user_id,
                                min_score, i + 1)

\* match_all_for_user(user_id, min_score): whether it raised, the summary it
\* returned, and the table it leaves (rolled back when it raised)
match_all_for_user(table, crits, matches, user_id, min_score) ==
    IF user_id \notin Users \/ crits[user_id] = NoCriteria
    THEN [raised |-> FALSE, summary |-> NewSummary(user_id),
          matched_jobs |-> matches]
    ELSE LET run == MatchLoop(table, crits[user_id], matches,
                              [NewSummary(user_id) EXCEPT
                                  !.total_jobs = Len(table)],
                              user_id, min_score, 1)
         IN  IF run.raised
             THEN [raised |-> TRUE, summary |-> NewSummary(user_id),
                   matched_jobs |-> matches]
             ELSE [raised |-> FALSE, summary |-> run.summary,
                   matched_jobs |-> run.rows]

InitMatchAll ==
    /\ call = NoCall
    /\ ret = NoCall
    /\ now = 0
    /\ last = NoCall
    /\ OrchIdle
    /\ jobs = <<>>
    /\ user_criteria = [u \in Users |-> NoCriteria]
    /\ matched_jobs = <<>>

\* ingestion stores a new job
AddJob ==
    /\ Len(jobs) < MaxJobs
    /\ \E j \in MatchJobs : jobs' = Append(jobs, j)
    /\ UNCHANGED <<call, ret, now, last, orchVars, matchVars>>

\* the web form saves a user's criteria
SaveCriteria ==
    /\ \E u \in Users, c \in MatchCriteria :
          /\ user_criteria[u] # c
          /\ user_criteria' = [user_criteria EXCEPT ![u] = c]
    /\ UNCHANGED <<call, ret, jobs, now, last, orchVars, matched_jobs>>

MatchAll ==
    /\ \E user_id \in UserIds, min_score \in MinScores :
          LET out == match_all_for_user(jobs, user_criteria, matched_jobs,
                                        user_id, min_score)
          IN  /\ matched_jobs' = out.matched_jobs
              /\ last' = [op |-> "match_all_for_user", user_id |-> user_id,
                          min_score |-> min_score, raised |-> out.raised,
                          summary |-> out.summary]
    /\ UNCHANGED <<call, ret, jobs, now, orchVars, user_criteria>>

NextMatchAll == AddJob \/ SaveCriteria \/ MatchAll

SpecMatchAll == InitMatchAll /\ [][NextMatchAll]_vars

(***************************************************************************)
(* Claims on matching runs, checked under SpecMatchAll.                    *)
(***************************************************************************)
\* the positions of the MatchedJob rows of (user_id, job_id)
RowsFor(rows, user_id, job_id) ==
    {i \in 1..Len(rows) :
        rows[i].user_id = user_id /\ rows[i].job_id = job_id}

\* the score of job j against the user's latest criteria
CurrentScore(user_id, j) == ScoreOf[jobs[j]][user_criteria[user_id]].total

\* a step of match_all_for_user (the other steps change jobs or criteria)
\* that evaluated the jobs and returned
CompletedRunStep ==
    /\ jobs' = jobs
    /\ user_criteria' = user_criteria
    /\ last'.op = "match_all_for_user"
    /\ ~last'.raised
    /\ last'.user_id \in Users
    /\ user_criteria[last'.user_id] # NoCriteria

BelowThreshold(user_id, min_score) ==
    {j \in 1..Len(jobs) : CurrentScore(user_id, j) < min_score}

C12_RerunStoresCurrentScore ==
    [][CompletedRunStep =>
        LET u == last'.user_id
        IN  \A j \in 1..Len(jobs) :
                RowsFor(matched_jobs, u, j) # {} =>
                    /\ Cardinality(RowsFor(matched_jobs', u, j)) = 1
                    /\ \A i \in RowsFor(matched_jobs', u, j) :
                          matched_jobs'[i].match_score
                              = Hundredths(CurrentScore(u, j))]_vars

\* C13: storage holds at most one MatchResult per (owner, job) pair, and a
\* run that returns reports matched = new + updated and
\* total evaluated = matched + below-threshold.
C13_OneMatchPerPair ==
    /\ \A u \in Users, j \in 1..Len(jobs) :
          Cardinality(RowsFor(matched_jobs, u, j)) <= 1
    /\ \A i \in 1..Len(matched_jobs) :
          matched_jobs[i].user_id \in Users
              /\ matched_jobs[i].job_id \in 1..Len(jobs)
    /\ (last.op = "match_all_for_user" /\ ~last.raised) =>
          /\ last.summary.jobs_matched
                = last.summary.new_matches + last.summary.existing_matches
          /\ last.summary.total_jobs
                = last.summary.jobs_matched + last.summary.jobs_below_threshold

\* both users have a MatchResult for job 1; the last run updated one match,
\* created one and left one job below the threshold
C13_Witness ==
    /\ Len(jobs) = 2
    /\ RowsFor(matched_jobs, 1, 1) # {}
    /\ RowsFor(matched_jobs, 2, 1) # {}
    /\ last.op = "match_all_for_user"
    /\ ~last.raised
    /\ last.summary.existing_matches = 1
    /\ last.summary.new_matches + last.summary.jobs_below_threshold = 1

(***************************************************************************)
(* Salary parsers of the scrapers (src/scrapers/*.py, _parse_salary).      *)
(* A salary text is a sequence of characters.  The markers and units of    *)
(* the patterns are one character each:                                    *)
(*   GEKKYU 月給, GESSHU 月収, NENSHU 年収, NENPO 年俸, YOTEI 予定,           *)
(*   MAN 万, EN 円.                                                         *)
(* HUGE is a run of more than 4300 digits, the length from which int()     *)
(* raises ValueError (sys.int_info.default_max_str_digits); it is one      *)
(* character as well and is never written next to a digit or a comma.      *)
(***************************************************************************)
GEKKYU == "GK"

GESSHU == "GS"

NENSHU == "NS"

NENPO == "NP"

YOTEI == "YT"

MAN == "MAN"

EN == "EN"

HUGE == "H"

PlainDigits == {"0", "1", "2", "3", "4", "5", "6", "7", "8", "9"}

Digits == PlainDigits \cup {HUGE}

DigitValue(c) ==
    CASE c = "0" -> 0 [] c = "1" -> 1 [] c = "2" -> 2 [] c = "3" -> 3
      [] c = "4" -> 4 [] c = "5" -> 5 [] c = "6" -> 6 [] c = "7" -> 7
      [] c = "8" -> 8 [] c = "9" -> 9

\* the character at position i (from 1), "$" past the end of the text
CharAt(t, i) == IF i \in 1..Len(t) THEN t[i] ELSE "$"

\* \d+ at position i: the length of the run of digits that starts there
RECURSIVE DigitRun(_, _)
DigitRun(t, i) == IF CharAt(t, i) \in Digits THEN 1 + DigitRun(t, i + 1) ELSE 0

\* (?:,\d{3})* at position j: how many groups ",ddd" follow one another
RECURSIVE CommaGroups(_, _)
CommaGroups(t, j) ==
    IF /\ CharAt(t, j) = ","
       /\ \A d \in 1..3 : CharAt(t, j + d) \in PlainDigits
    THEN 1 + CommaGroups(t, j + 4)
    ELSE 0

\* (\d{1,3}(?:,\d{3})*|\d+) at position i: the positions just behind every
\* text the group can match there, over all the backtracking of the regex
NumberEnds(t, i) ==
    LET r == DigitRun(t, i)
    IN  UNION {{i + k + 4 * g : g \in 0..CommaGroups(t, i + k)} :
                  k \in {n \in 1..(IF r < 3 THEN r ELSE 3) :
                            \A d \in 0..(n - 1) : t[i + d] \in PlainDigits}}
        \cup {i + n : n \in 1..r}

\* int(match.replace(",", "")) raises ValueError
IntRaises(s) == HUGE \in SeqToSet(s)

\* int(match.replace(",", "")) when it does not raise
RECURSIVE IntAcc(_, _)
IntAcc(s, acc) ==
    IF s = <<>> THEN acc
    ELSE IF Head(s) = "," THEN IntAcc(Tail(s), acc)
         ELSE IntAcc(Tail(s), acc * 10 + DigitValue(Head(s)))

IntOf(s) == IntAcc(s, 0)

\* 万円 at position e: the position behind it, 0 when it is not there
ManEnAt(t, e) ==
    IF CharAt(t, e) = MAN /\ CharAt(t, e + 1) = EN THEN e + 2 ELSE 0

\* 万?円 at position e
ManOptEnAt(t, e) ==
    IF CharAt(t, e) = MAN /\ CharAt(t, e + 1) = EN THEN e + 2
    ELSE IF CharAt(t, e) = EN THEN e + 1
    ELSE 0

\* (?:年収|予定年収)[＞>]? at position i: the position behind it, 0 when the
\* text does not have it there
AnnualPrefixAt(t, i) ==
    LET p == IF CharAt(t, i) = NENSHU THEN i + 1
             ELSE IF CharAt(t, i) = YOTEI /\ CharAt(t, i + 1) = NENSHU
                  THEN i + 2
                  ELSE 0
    IN  IF p = 0 THEN 0
        ELSE IF CharAt(t, p) = ">" THEN p + 1 ELSE p

NoMatch == [group |-> <<>>, end |-> 0]

\* One attempt of a pattern at position i.  The unit that must follow the
\* number is neither a digit nor a comma, so at most one way of matching the
\* number leaves the unit behind it.
\*   "SALARY"  DodaScraper.SALARY_PATTERN          (number)万円
\*   "ANNUAL"  DodaScraper.ANNUAL_SALARY_PATTERN   (年収|予定年収)[>]?(number)万円
\*   "INDEED"  IndeedScraper.SALARY_PATTERN        (number)万?円
MatchAt(pattern, t, i) ==
    LET start == IF pattern = "ANNUAL" THEN AnnualPrefixAt(t, i) ELSE i
        UnitAt(e) == IF pattern = "INDEED" THEN ManOptEnAt(t, e)
                                           ELSE ManEnAt(t, e)
        ends == IF start = 0 THEN {}
                ELSE {e \in NumberEnds(t, start) : UnitAt(e) # 0}
    IN  IF ends = {} THEN NoMatch
        ELSE LET e == CHOOSE x \in ends : TRUE
             IN  [group |-> SubSeq(t, start, e - 1), end |-> UnitAt(e)]

\* pattern.findall(text): the captured numbers of the matches, left to right,
\* each search starting behind the previous match
RECURSIVE FindAll(_, _, _)
FindAll(pattern, t, i) ==
    IF i > Len(t) THEN <<>>
    ELSE LET m == MatchAt(pattern, t, i)
         IN  IF m.end = 0 THEN FindAll(pattern, t, i + 1)
             ELSE <<m.group>> \o FindAll(pattern, t, m.end)

\* \s* at position i: the position of the first character that is no space
RECURSIVE SkipWs(_, _)
SkipWs(t, i) == IF CharAt(t, i) \in Whitespace THEN SkipWs(t, i + 1) ELSE i

\* [〜~～ー－-]
RangeSeparators == {"~", "-"}

\* (\d{3,})\s*万 at position i: the number and the position behind 万, end 0
\* when the text does not have it there
GreenNumberAt(t, i) ==
    LET r == DigitRun(t, i)
        p == SkipWs(t, i + r)
    IN  IF (r >= 3 \/ CharAt(t, i) = HUGE) /\ CharAt(t, p) = MAN
        THEN [group |-> SubSeq(t, i, i + r - 1), end |-> p + 1]
        ELSE NoMatch

NoSearch == [found |-> FALSE, group1 |-> <<>>, group2 |-> <<>>]

\* GreenScraper.SALARY_PATTERN.search(text) from position i on:
\* (\d{3,})\s*万円?\s*[〜~～ー－-]\s*(\d{3,})\s*万円?
RECURSIVE GreenRangeSearch(_, _)
GreenRangeSearch(t, i) ==
    IF i > Len(t) THEN NoSearch
    ELSE LET a == GreenNumberAt(t, i)
             q == SkipWs(t, IF CharAt(t, a.end) = EN THEN a.end + 1 ELSE a.end)
             b == GreenNumberAt(t, SkipWs(t, q + 1))
         IN  IF a.end # 0 /\ CharAt(t, q) \in RangeSeparators /\ b.end # 0
             THEN [found |-> TRUE, group1 |-> a.group, group2 |-> b.group]
             ELSE GreenRangeSearch(t, i + 1)

\* GreenScraper.SALARY_SINGLE_PATTERN.search(text) from position i on:
\* (\d{3,})\s*万円
RECURSIVE GreenSingleSearch(_, _)
GreenSingleSearch(t, i) ==
    IF i > Len(t) THEN NoSearch
    ELSE LET a == GreenNumberAt(t, i)
         IN  IF a.end # 0 /\ CharAt(t, a.end) = EN
             THEN [found |-> TRUE, group1 |-> a.group, group2 |-> <<>>]
             ELSE GreenSingleSearch(t, i + 1)

\* "if not salary_text": None and the empty text
NoSalaryText(salary_text) == salary_text = NoneText \/ salary_text = <<>>

\* return None, None
NoSalary == [raised |-> FALSE, annual_min |-> NoneInt, annual_max |-> NoneInt]

\* the call ends with an exception
SalaryRaised == [raised |-> TRUE, annual_min |-> NoneInt, annual_max |-> NoneInt]

\* the matches whose conversion does not raise ("except ValueError: continue")
Convertible(matches) ==
    LET Converts(s) == ~IntRaises(s) IN SelectSeq(matches, Converts)

SeqMin(q) == CHOOSE x \in SeqToSet(q) : \A y \in SeqToSet(q) : x <= y

SeqMax(q) == CHOOSE x \in SeqToSet(q) : \A y \in SeqToSet(q) : x >= y

\* return min(amounts), max(amounts)
MinMax(amounts) ==
    [raised |-> FALSE, annual_min |-> SeqMin(amounts),
     annual_max |-> SeqMax(amounts)]

\* [a * 12 if a < 2500000 else a for a in amounts]
MonthlyToAnnual(amounts) ==
    [i \in 1..Len(amounts) |->
        IF amounts[i] < 2500000 THEN amounts[i] * 12 ELSE amounts[i]]

\* is_monthly of DodaScraper, DodaBrowserScraper and IndeedScraper
IsMonthly(salary_text) ==
    \/ IsSubstring(<<GEKKYU>>, salary_text)
    \/ IsSubstring(<<GESSHU>>, salary_text)

\* is_annual of DodaScraper and DodaBrowserScraper
DodaIsAnnual(salary_text) ==
    \/ IsSubstring(<<NENSHU>>, salary_text)
    \/ IsSubstring(<<YOTEI, NENSHU>>, salary_text)

\* is_annual of IndeedScraper
IndeedIsAnnual(salary_text) ==
    \/ IsSubstring(<<NENSHU>>, salary_text)
    \/ IsSubstring(<<NENPO>>, salary_text)

\* DodaScraper._parse_salary: the amounts of the matches of the pattern the
\* markers select, before any conversion to annual
DodaAmounts(salary_text) ==
    LET annual == FindAll("ANNUAL", salary_text, 1)
        matches ==
            IF DodaIsAnnual(salary_text) /\ IsMonthly(salary_text) THEN annual
            ELSE IF DodaIsAnnual(salary_text) /\ annual # <<>> THEN annual
            ELSE FindAll("SALARY", salary_text, 1)
        converted == Convertible(matches)
    IN  [i \in 1..Len(converted) |-> IntOf(converted[i]) * 10000]

\* DodaScraper._parse_salary
DodaScraper_parse_salary(salary_text) ==
    IF NoSalaryText(salary_text) THEN NoSalary
    ELSE LET amounts == DodaAmounts(salary_text)
         IN  IF amounts = <<>> THEN NoSalary
             ELSE IF IsMonthly(salary_text) /\ ~DodaIsAnnual(salary_text)
                  THEN MinMax(MonthlyToAnnual(amounts))
                  ELSE MinMax(amounts)

\* DodaBrowserScraper._parse_salary: the same patterns and the same steps
DodaBrowserScraper_parse_salary(salary_text) ==
    DodaScraper_parse_salary(salary_text)

\* IndeedScraper._parse_salary: the amounts of the matches, a number below
\* 1000 taken to be written in 万円, before any conversion to annual
IndeedAmounts(salary_text) ==
    LET converted == Convertible(FindAll("INDEED", salary_text, 1))
    IN  [i \in 1..Len(converted) |->
            IF IntOf(converted[i]) < 1000 THEN IntOf(converted[i]) * 10000
                                          ELSE IntOf(converted[i])]

\* IndeedScraper._parse_salary
IndeedScraper_parse_salary(salary_text) ==
    IF NoSalaryText(salary_text) THEN NoSalary
    ELSE LET amounts == IndeedAmounts(salary_text)
         IN  IF amounts = <<>> THEN NoSalary
             ELSE IF IsMonthly(salary_text) /\ ~IndeedIsAnnual(salary_text)
                  THEN MinMax(MonthlyToAnnual(amounts))
                  ELSE MinMax(amounts)

\* GreenScraper._parse_salary: the numbers of the range match, else the
\* number of the single match
GreenMatches(salary_text) ==
    LET range == GreenRangeSearch(salary_text, 1)
        single == GreenSingleSearch(salary_text, 1)
    IN  IF range.found THEN <<range.group1, range.group2>>
        ELSE IF single.found THEN <<single.group1>>
        ELSE <<>>

\* GreenScraper._parse_salary: int(match.group(k)) * 10000 outside any try,
\* then return min_val, max_val / return val, val
GreenScraper_parse_salary(salary_text) ==
    IF NoSalaryText(salary_text) THEN NoSalary
    ELSE LET matches == GreenMatches(salary_text)
         IN  IF matches = <<>> THEN NoSalary
             ELSE IF \E i \in 1..Len(matches) : IntRaises(matches[i])
                  THEN SalaryRaised
                  ELSE [raised |-> FALSE,
                        annual_min |-> IntOf(matches[1]) * 10000,
                        annual_max |-> IntOf(matches[Len(matches)]) * 10000]

SalaryParsers == {"doda", "doda_browser", "green", "indeed"}

\* scraper._parse_salary(salary_text) of the named scraper
parse_salary(scraper_name, salary_text) ==
    CASE scraper_name = "doda" -> DodaScraper_parse_salary(salary_text)
      [] scraper_name = "doda_browser" ->
            DodaBrowserScraper_parse_salary(salary_text)
      [] scraper_name = "green" -> GreenScraper_parse_salary(salary_text)
      [] scraper_name = "indeed" -> IndeedScraper_parse_salary(salary_text)

(***************************************************************************)
(* SpecSalary: one call of _parse_salary on a salary text made of up to    *)
(* MaxParts figures joined by " ~ ", each figure an optional marker and a  *)
(* number with its unit (or a text without a number).                      *)
(***************************************************************************)
MaxParts == 2

\* nothing, 月給, 年収, 年俸, 予定年収>
SalaryMarkers ==
    {<<>>, <<GEKKYU>>, <<NENSHU>>, <<NENPO>>, <<YOTEI, NENSHU, ">">>}

\* 25万円, 250万円, 600万円, 1,000万円, 250,000円, a number of more than 4300
\* digits with 万円, and a text without number
SalaryFigures ==
    {<<"2", "5", MAN, EN>>,
     <<HUGE, MAN, EN>>,
     <<"2", "5", "0", MAN, EN>>,
     <<"6", "0", "0", MAN, EN>>,
     <<"1", ",", "0", "0", "0", MAN, EN>>,
     <<"2", "5", "0", ",", "0", "0", "0", EN>>,
     <<"x">>}

SalaryParts == {m \o f : m \in SalaryMarkers, f \in SalaryFigures}

RECURSIVE JoinParts(_)
JoinParts(q) ==
    IF q = <<>> THEN <<>>
    ELSE IF Len(q) = 1 THEN q[1]
    ELSE q[1] \o <<" ", "~", " ">> \o JoinParts(Tail(q))

SalaryTexts ==
    {NoneText} \cup {JoinParts(q) : q \in ListsUpTo(SalaryParts, MaxParts)}

InitSalary ==
    /\ \E s \in SalaryParsers, t \in SalaryTexts :
          call = [op |-> "_parse_salary", scraper |-> s, salary_text |-> t]
    /\ ret = NoCall
    /\ jobs = <<>>
    /\ now = 0
    /\ last = NoCall
    /\ OrchIdle
    /\ MatchIdle

ApplySalary ==
    /\ ret = NoCall
    /\ call.op = "_parse_salary"
    /\ ret' = [op |-> call.op, r |-> parse_salary(call.scraper, call.salary_text)]
    /\ UNCHANGED <<matchVars, call, jobs, now, last, orchVars>>

NextSalary == ApplySalary

SpecSalary == InitSalary /\ [][NextSalary]_vars

(***************************************************************************)
(* Claims on the salary parsers, checked under SpecSalary.                 *)
(***************************************************************************)
Parsed == ret.op = "_parse_salary"

HasText == ~NoSalaryText(call.salary_text)

\* the amounts the called parser matched in the text, before any conversion
\* to annual
MatchedAmounts ==
    IF ~HasText THEN <<>>
    ELSE CASE call.scraper \in {"doda", "doda_browser"} ->
                 DodaAmounts(call.salary_text)
           [] call.scraper = "indeed" -> IndeedAmounts(call.salary_text)
           [] call.scraper = "green" ->
                 LET converted == Convertible(GreenMatches(call.salary_text))
                 IN  [i \in 1..Len(converted) |-> IntOf(converted[i]) * 10000]

\* the text carries an annual marker (年収, 予定年収 or 年俸)
AnnualMarked ==
    \/ IsSubstring(<<NENSHU>>, call.salary_text)
    \/ IsSubstring(<<NENPO>>, call.salary_text)

MonthlyMarked == IsMonthly(call.salary_text)

\* the figures written in the text, left to right (without the numbers
\* int() refuses): the number, whether it is written with 万, and whether an
\* annual marker stands right in front of it
RECURSIVE FiguresFrom(_, _)
FiguresFrom(t, i) ==
    IF i > Len(t) THEN <<>>
    ELSE LET m == MatchAt("INDEED", t, i)
         IN  IF m.end = 0 THEN FiguresFrom(t, i + 1)
             ELSE IF IntRaises(m.group) THEN FiguresFrom(t, m.end)
             ELSE <<[n |-> IntOf(m.group), man |-> t[m.end - 2] = MAN,
                     annual |-> CharAt(t, i - 1) \in {NENSHU, NENPO, ">"}]>>
                  \o FiguresFrom(t, m.end)

Figures == IF HasText THEN FiguresFrom(call.salary_text, 1) ELSE <<>>

\* the value of a written figure in base currency units
BaseUnits(f) == IF f.man THEN f.n * 10000 ELSE f.n

MonthlyParsers == {"doda", "doda_browser", "indeed"}

\* C14: for a text with only monthly markers or with no periodicity marker,
\* the Doda, Doda browser and Indeed parsers return the smallest and largest
\* of the matched values after each value below 2,500,000 is multiplied by
\* 12 (once) and each value at or above 2,500,000 is left as it is.
C14_MonthlyOrUnmarkedTimesTwelve ==
    (/\ Parsed
     /\ call.scraper \in MonthlyParsers
     /\ ~AnnualMarked
     /\ MatchedAmounts # <<>>)
    => ret.r = MinMax(MonthlyToAnnual(MatchedAmounts))

\* the part of C14 for texts that do carry a monthly marker
C14_MonthlyMarkedTimesTwelve ==
    (/\ Parsed
     /\ call.scraper \in MonthlyParsers
     /\ ~AnnualMarked
     /\ MonthlyMarked
     /\ MatchedAmounts # <<>>)
    => ret.r = MinMax(MonthlyToAnnual(MatchedAmounts))

\* a text with a monthly marker, a value below and a value at the threshold
C14_MonthlyWitness ==
    /\ Parsed
    /\ call.scraper \in MonthlyParsers
    /\ ~AnnualMarked
    /\ MonthlyMarked
    /\ MatchedAmounts = <<250000, 2500000>>
    /\ ret.r = MinMax(<<2500000, 3000000>>)

\* the values of the figures of the text that an annual marker tags
AnnualTagged == {BaseUnits(Figures[i]) : i \in {j \in 1..Len(Figures) : Figures[j].annual}}

\* C15: for a text with both a monthly marker (月給) and an annual marker
\* (年収), a numeric result of the Doda, Doda browser and Indeed parsers has
\* both bounds among the values tagged annual, none multiplied by 12.
C15_BothMarkersOnlyAnnualValues ==
    (/\ Parsed
     /\ call.scraper \in MonthlyParsers
     /\ MonthlyMarked
     /\ IsSubstring(<<NENSHU>>, call.salary_text)
     /\ ret.r # NoSalary)
    => /\ ret.r.annual_min \in AnnualTagged
       /\ ret.r.annual_max \in AnnualTagged

\* the part of C15 for DodaScraper and DodaBrowserScraper
C15_DodaBothMarkersOnlyAnnualValues ==
    (/\ Parsed
     /\ call.scraper \in {"doda", "doda_browser"}
     /\ MonthlyMarked
     /\ IsSubstring(<<NENSHU>>, call.salary_text))
    => \/ ret.r = NoSalary
       \/ /\ ret.r.annual_min \in AnnualTagged
          /\ ret.r.annual_max \in AnnualTagged

\* Doda: 月給25万円 ~ 年収600万円 gives (6000000, 6000000)
C15_DodaWitness ==
    /\ Parsed
    /\ call.scraper = "doda"
    /\ MonthlyMarked
    /\ Len(Figures) = 2
    /\ AnnualTagged = {6000000}
    /\ ret.r = MinMax(<<6000000>>)

\* C16: a numeric result of a salary parser (Doda, Doda browser, Indeed,
\* Green) is the smallest and the largest of the matched values after
\* conversion, so annual_min <= annual_max whatever the order of the numbers
\* in the text, and a single matched number gives annual_min = annual_max.
C16_MinNotAboveMax ==
    (Parsed /\ ret.r # NoSalary)
    => /\ ret.r.annual_min <= ret.r.annual_max
       /\ Len(MatchedAmounts) = 1 => ret.r.annual_min = ret.r.annual_max

\* the part of C16 for the parsers that return min(amounts), max(amounts)
C16_MinMaxParsersOrdered ==
    (Parsed /\ call.scraper \in MonthlyParsers /\ ret.r # NoSalary)
    => /\ ret.r.annual_min <= ret.r.annual_max
       /\ Len(MatchedAmounts) = 1 => ret.r.annual_min = ret.r.annual_max

\* a text whose larger number comes first, parsed by a min/max parser
C16_MinMaxWitness ==
    /\ Parsed
    /\ call.scraper \in MonthlyParsers
    /\ Len(MatchedAmounts) = 2
    /\ MatchedAmounts[1] > MatchedAmounts[2]
    /\ ret.r.annual_min = MatchedAmounts[2]

\* C17: every call of a salary parser, also on an absent text, an empty text
\* and a text without a recoverable number, returns (None, None) or a pair of
\* two numbers, and (None, None) exactly when the parser matched no number.
C17_NoneOrTwoNumbers ==
    Parsed
    => /\ ~ret.r.raised
       /\ \/ ret.r = NoSalary
          \/ ret.r.annual_min \in Nat /\ ret.r.annual_max \in Nat
       /\ ret.r = NoSalary <=> MatchedAmounts = <<>>

\* the part of C17 for texts whose numbers int() accepts
C17_ShortNumbersNoneOrTwoNumbers ==
    (Parsed /\ HUGE \notin SeqToSet(call.salary_text))
    => /\ ~ret.r.raised
       /\ \/ ret.r = NoSalary
          \/ ret.r.annual_min \in Nat /\ ret.r.annual_max \in Nat
       /\ ret.r = NoSalary <=> MatchedAmounts = <<>>

\* a text that is present and gives no number
C17_Witness ==
    /\ Parsed
    /\ HasText
    /\ MatchedAmounts = <<>>
    /\ ret.r = NoSalary

\* the absent and the empty text
C17_AbsentWitness ==
    /\ Parsed
    /\ ~HasText
    /\ ret.r = NoSalary

\* C18: the numeric result of a salary parser is in base currency units: in
\* a text with one figure and no monthly marker, a number n written with 万
\* gives n * 10000 and a number n written in plain 円 gives n.
C18_BaseUnits ==
    (/\ Parsed
     /\ ~MonthlyMarked
     /\ Len(Figures) = 1
     /\ ret.r # NoSalary)
    => /\ ret.r.annual_min = BaseUnits(Figures[1])
       /\ ret.r.annual_max = BaseUnits(Figures[1])

\* the part of C18 for DodaScraper and DodaBrowserScraper, whose patterns
\* only match numbers written with 万円
C18_DodaBaseUnits ==
    (/\ Parsed
     /\ call.scraper \in {"doda", "doda_browser"}
     /\ ~MonthlyMarked
     /\ Len(Figures) = 1
     /\ ret.r # NoSalary)
    => /\ Figures[1].man
       /\ ret.r.annual_min = Figures[1].n * 10000
       /\ ret.r.annual_max = Figures[1].n * 10000

\* Doda: 1,000万円 gives (10000000, 10000000)
C18_DodaWitness ==
    /\ Parsed
    /\ call.scraper = "doda"
    /\ Len(Figures) = 1
    /\ Figures[1].n = 1000
    /\ ret.r.annual_min = 10000000

(***************************************************************************)
(* Claims on a failed commit, checked under SpecOrch (run_scraper) and     *)
(* under Spec (store_jobs).                                                *)
(***************************************************************************)
\* run_scraper of the adapter n reaches session.commit() in this step
CommitStepOf(n) == scraper[n].pc = "store" /\ scraper'[n].pc = "done"

\* C19: when the commit of an adapter's batch fails, none of the batch's new
\* records is stored and the adapter's result has added = 0, errors = the
\* errors counted so far plus the records that would have been added, and
\* the scraped and duplicate counts of the batch.
C19_CommitFailureCountedAsErrors ==
    [][\A n \in Names :
          (CommitStepOf(n) /\ ~scraper'[n].out.result.success)
          => /\ jobs' = jobs
             /\ scraper'[n].out.result.jobs_added = 0
             /\ scraper'[n].out.result.errors
                   = scraper[n].st.errors + scraper[n].st.new_jobs
             /\ scraper'[n].out.result.jobs_scraped = Len(scraper[n].fetched)
             /\ scraper'[n].out.result.duplicates = scraper[n].st.duplicates]_vars

\* the part of C19 that run_scraper keeps: nothing of the batch is stored,
\* nothing is reported added, and the failure carries a message
C19_RunScraperRollsBack ==
    [][\A n \in Names :
          (CommitStepOf(n) /\ ~scraper'[n].out.result.success)
          => /\ jobs' = jobs
             /\ scraper'[n].out.result.jobs_added = 0
             /\ scraper'[n].out.result.error_message # NoMessage]_vars

\* what store_jobs had counted when it reached session.commit()
CountedBeforeCommit ==
    IngestAll(jobs, NewSession,
              [NoStats EXCEPT !.total_scraped = Len(last'.batch)],
              last'.batch, now).st

\* the part of C19 for store_jobs: after a failed commit the table is as
\* before, new_jobs is 0, errors has grown by the would-be-added records, and
\* every posting of the batch is counted once, as duplicate or as error
C19_StoreJobsCommitFailure ==
    [][(StoreStep /\ ~last'.committed)
       => /\ jobs' = jobs
          /\ last'.stats.new_jobs = 0
          /\ last'.stats.errors
                = CountedBeforeCommit.errors + CountedBeforeCommit.new_jobs
          /\ last'.stats.total_scraped = Len(last'.batch)
          /\ last'.stats.duplicates = CountedBeforeCommit.duplicates
          /\ last'.stats.duplicates + last'.stats.errors = Len(last'.batch)]_vars

\* a store_jobs call whose commit failed with a new record in the batch
C19_StoreJobsWitness ==
    /\ last.op = "store_jobs"
    /\ ~last.committed
    /\ \E i \in 1..Len(last.batch) : last.fresh[i]
    /\ last.stats.new_jobs = 0
    /\ last.stats.errors > 0

(***************************************************************************)
(* Search loops of the scrapers (src/scrapers/*.py, search).  The site is  *)
(* a sequence of result pages; what a page does when the scraper asks for  *)
(* it is its outcome:                                                      *)
(*   result   "ok", "timeout" (requests.Timeout, PlaywrightTimeout),       *)
(*            "error" (another requests.RequestException or playwright      *)
(*            Error), "click_error" (the click on the next-page link fails) *)
(*   records  "new" (a record not seen on an earlier page), "repeat" (the   *)
(*            record of page 1 again), "none" (no record)                   *)
(*   next     the page shows a link to a next page                          *)
(* A record is the number of the page that first showed it.                *)
(***************************************************************************)
MaxPages == 3

OkPages ==
    {[result |-> "ok", records |-> r, next |-> n] :
        r \in {"new", "repeat", "none"}, n \in BOOLEAN}

FailedPage(kind) == [result |-> kind, records |-> "none", next |-> FALSE]

\* the records _parse_page / _parse_job_cards extracts from page k
PageRecords(pages, k) ==
    CASE pages[k].records = "new" -> <<k>>
      [] pages[k].records = "repeat" -> <<1>>
      [] pages[k].records = "none" -> <<>>

\* "return all_jobs"; requested lists the pages asked for, delays the pages
\* after which self.delay() was called
SearchReturns(all_jobs, requested, delays) ==
    [raised |-> FALSE, all_jobs |-> all_jobs, requested |-> requested,
     delays |-> delays]

\* an exception leaves search(): all_jobs is lost
SearchRaises(requested, delays) ==
    [raised |-> TRUE, all_jobs |-> <<>>, requested |-> requested,
     delays |-> delays]

\* new_jobs: the records whose job_id is not in seen_ids
NewJobs(jobs_found, all_jobs) ==
    SelectSeq(jobs_found, LAMBDA j : j \notin SeqToSet(all_jobs))

\* "if page_num < max_pages: ... self.delay()"
DelayBeforeNext(delays, page_num, max_pages) ==
    IF page_num < max_pages THEN Append(delays, page_num) ELSE delays

\* DodaScraper.search, GreenScraper.search, IndeedScraper.search from page
\* page_num on: fetch (None on any RequestException: break), parse, extend,
\* break without next_url, delay before the next page
RECURSIVE NextUrlLoop(_, _, _, _, _, _)
NextUrlLoop(pages, max_pages, page_num, all_jobs, requested, delays) ==
    IF page_num > max_pages THEN SearchReturns(all_jobs, requested, delays)
    ELSE LET asked == Append(requested, page_num)
             extended == all_jobs \o PageRecords(pages, page_num)
         IN  IF pages[page_num].result # "ok"
             THEN SearchReturns(all_jobs, asked, delays)
             ELSE IF ~pages[page_num].next
                  THEN SearchReturns(extended, asked, delays)
                  ELSE NextUrlLoop(pages, max_pages, page_num + 1, extended,
                                   asked,
                                   DelayBeforeNext(delays, page_num, max_pages))

DodaScraper_search(pages, max_pages) ==
    NextUrlLoop(pages, max_pages, 1, <<>>, <<>>, <<>>)

GreenScraper_search(pages, max_pages) ==
    NextUrlLoop(pages, max_pages, 1, <<>>, <<>>, <<>>)

IndeedScraper_search(pages, max_pages) ==
    NextUrlLoop(pages, max_pages, 1, <<>>, <<>>, <<>>)

\* WantedlyScraper.search from page page_num on: fetch (None: break), parse,
\* drop the seen job_ids, extend, break when _has_next_page is false, delay
\* before the next page
RECURSIVE WantedlyLoop(_, _, _, _, _, _)
WantedlyLoop(pages, max_pages, page_num, all_jobs, requested, delays) ==
    IF page_num > max_pages THEN SearchReturns(all_jobs, requested, delays)
    ELSE LET asked == Append(requested, page_num)
             extended ==
                 all_jobs \o NewJobs(PageRecords(pages, page_num), all_jobs)
         IN  IF pages[page_num].result # "ok"
             THEN SearchReturns(all_jobs, asked, delays)
             ELSE IF page_num < max_pages /\ ~pages[page_num].next
                  THEN SearchReturns(extended, asked, delays)
                  ELSE WantedlyLoop(pages, max_pages, page_num + 1, extended,
                                    asked,
                                    DelayBeforeNext(delays, page_num, max_pages))

WantedlyScraper_search(pages, max_pages) ==
    WantedlyLoop(pages, max_pages, 1, <<>>, <<>>, <<>>)

\* WantedlyBrowserScraper.search from page page_num on: page.goto; on
\* PlaywrightTimeout "continue" with the next page, the delay at the end of
\* the try block skipped; any other exception ends the loop in the outer
\* "except Exception"; break when a page brings no new job; delay before the
\* next page
RECURSIVE WantedlyBrowserLoop(_, _, _, _, _, _)
WantedlyBrowserLoop(pages, max_pages, page_num, all_jobs, requested, delays) ==
    IF page_num > max_pages THEN SearchReturns(all_jobs, requested, delays)
    ELSE LET asked == Append(requested, page_num)
             new_jobs == NewJobs(PageRecords(pages, page_num), all_jobs)
         IN  IF pages[page_num].result = "timeout"
             THEN WantedlyBrowserLoop(pages, max_pages, page_num + 1,
                                      all_jobs, asked, delays)
             ELSE IF pages[page_num].result # "ok"
                  THEN SearchReturns(all_jobs, asked, delays)
             ELSE IF new_jobs = <<>>
                  THEN SearchReturns(all_jobs, asked, delays)
                  ELSE WantedlyBrowserLoop(pages, max_pages, page_num + 1,
                                           all_jobs \o new_jobs, asked,
                                           DelayBeforeNext(delays, page_num,
                                                           max_pages))

WantedlyBrowserScraper_search(pages, max_pages) ==
    WantedlyBrowserLoop(pages, max_pages, 1, <<>>, <<>>, <<>>)

\* DodaBrowserScraper.search from page page_num on, the page having been
\* asked for: wait_for_selector (PlaywrightTimeout: break; another exception
\* leaves search through the finally), parse, extend, then, if the next-page
\* link is visible, the delay and the click on the link (any exception:
\* break)
RECURSIVE DodaBrowserLoop(_, _, _, _, _, _)
DodaBrowserLoop(pages, max_pages, page_num, all_jobs, requested, delays) ==
    LET extended == all_jobs \o PageRecords(pages, page_num)
        asked == Append(requested, page_num + 1)
        delayed == Append(delays, page_num)
    IN  IF pages[page_num].result = "timeout"
        THEN SearchReturns(all_jobs, requested, delays)
        ELSE IF pages[page_num].result # "ok"
             THEN SearchRaises(requested, delays)
        ELSE IF page_num >= max_pages \/ ~pages[page_num].next
             THEN SearchReturns(extended, requested, delays)
        ELSE IF pages[page_num + 1].result = "click_error"
             THEN SearchReturns(extended, asked, delayed)
             ELSE DodaBrowserLoop(pages, max_pages, page_num + 1, extended,
                                  asked, delayed)

\* DodaBrowserScraper.search: the homepage, the search form (its failure is
\* logged and raised again), then the loop
DodaBrowserScraper_search(home, pages, max_pages) ==
    IF home # "ok" THEN SearchRaises(<<>>, <<>>)
    ELSE IF pages[1].result # "ok" THEN SearchRaises(<<1>>, <<>>)
    ELSE IF max_pages < 1 THEN SearchReturns(<<>>, <<1>>, <<>>)
    ELSE DodaBrowserLoop(pages, max_pages, 1, <<>>, <<1>>, <<>>)

Adapters ==
    {"doda", "green", "indeed", "wantedly", "wantedly_browser", "doda_browser"}

\* scraper.search(keywords, location, max_pages) of the named adapter
search(adapter, home, pages, max_pages) ==
    CASE adapter = "doda" -> DodaScraper_search(pages, max_pages)
      [] adapter = "green" -> GreenScraper_search(pages, max_pages)
      [] adapter = "indeed" -> IndeedScraper_search(pages, max_pages)
      [] adapter = "wantedly" -> WantedlyScraper_search(pages, max_pages)
      [] adapter = "wantedly_browser" ->
            WantedlyBrowserScraper_search(pages, max_pages)
      [] adapter = "doda_browser" ->
            DodaBrowserScraper_search(home, pages, max_pages)

\* the ways a page can fail for an adapter
Failures(adapter) ==
    IF adapter = "doda_browser" THEN {"timeout", "error", "click_error"}
    ELSE {"timeout", "error"}

\* the sites an adapter can meet: MaxPages pages
Sites(adapter) ==
    [1..MaxPages -> OkPages \cup {FailedPage(f) : f \in Failures(adapter)}]

(***************************************************************************)
(* SpecSearch: one call of search on a site.                               *)
(***************************************************************************)
InitSearch ==
    /\ \E a \in Adapters :
       \E h \in (IF a = "doda_browser" THEN {"ok", "timeout"} ELSE {"ok"}) :
       \E pages \in Sites(a), max_pages \in 1..MaxPages :
          call = [op |-> "search", adapter |-> a, home |-> h, pages |-> pages,
                  max_pages |-> max_pages]
    /\ ret = NoCall
    /\ jobs = <<>>
    /\ now = 0
    /\ last = NoCall
    /\ OrchIdle
    /\ MatchIdle

ApplySearch ==
    /\ ret = NoCall
    /\ call.op = "search"
    /\ ret' = [op |-> call.op,
               r |-> search(call.adapter, call.home, call.pages, call.max_pages)]
    /\ UNCHANGED <<matchVars, call, jobs, now, last, orchVars>>

NextSearch == ApplySearch

SpecSearch == InitSearch /\ [][NextSearch]_vars

(***************************************************************************)
(* Claims on the search loops, checked under SpecSearch.                   *)
(***************************************************************************)
Searched == ret.op = "search"

\* the pages the call asked for whose fetch or render failed
FailedAsked ==
    {k \in SeqToSet(ret.r.requested) : call.pages[k].result # "ok"}

FirstFailed == CHOOSE k \in FailedAsked : \A j \in FailedAsked : k <= j

\* the records of the pages 1..n, each job_id once for the Wantedly adapters
RECURSIVE Extracted(_)
Extracted(n) ==
    IF n = 0 THEN <<>>
    ELSE LET before == Extracted(n - 1)
         IN  IF call.adapter \in {"wantedly", "wantedly_browser"}
             THEN before \o NewJobs(PageRecords(call.pages, n), before)
             ELSE before \o PageRecords(call.pages, n)

\* the failure of page k ended the run: nothing raised, no page asked for
\* after k, the records of the pages before k returned
StoppedAt(k) ==
    /\ ~ret.r.raised
    /\ \A j \in SeqToSet(ret.r.requested) : j <= k
    /\ ret.r.all_jobs = Extracted(k - 1)

\* C20: in every adapter's search, when the fetch or render of a page k
\* fails or times out, no further page is asked for, the records of the pages
\* 1..k-1 are returned, and search does not raise.
C20_PageFailureStopsPagination ==
    (Searched /\ call.home = "ok" /\ FailedAsked # {}) => StoppedAt(FirstFailed)

DirectFetch == {"doda", "green", "indeed", "wantedly"}

\* the part of C20 for the direct-fetch adapters
C20_DirectFetchStops ==
    (Searched /\ call.adapter \in DirectFetch /\ FailedAsked # {})
    => StoppedAt(FirstFailed)

\* the part of C20 for the browser adapters: DodaBrowserScraper when a page
\* behind the first times out or the click to it fails,
\* WantedlyBrowserScraper when a page fails otherwise than by timeout
C20_BrowserStopsOnSome ==
    (/\ Searched
     /\ call.home = "ok"
     /\ FailedAsked # {}
     /\ \/ /\ call.adapter = "doda_browser"
           /\ FirstFailed > 1
           /\ call.pages[FirstFailed].result \in {"timeout", "click_error"}
        \/ /\ call.adapter = "wantedly_browser"
           /\ call.pages[FirstFailed].result = "error")
    => StoppedAt(FirstFailed)

\* a direct-fetch search whose third page failed after two pages of records
C20_DirectFetchWitness ==
    /\ Searched
    /\ call.adapter \in DirectFetch
    /\ FailedAsked = {3}
    /\ ret.r.all_jobs = <<1, 2>>
    /\ ret.r.requested = <<1, 2, 3>>

\* ------------------------------------------------------------------------
\* Page parsing: _parse_job and _parse_page of DodaScraper, IndeedScraper
\* and GreenScraper.  A URL is a sequence of tokens (the site's base URL, a
\* path segment, a digit), a text is a sequence of tokens as in the salary
\* section.  The location and the description of a job are left out: no
\* property below reads them.
\* ------------------------------------------------------------------------

MaxItems == 2

DODA_BASE_URL == "https://doda.jp"

INDEED_BASE_URL == "https://jp.indeed.com"

GREEN_BASE_URL == "https://www.green-japan.com"

\* the path segment "JobSearchDetail" of a Doda detail link
DETAIL == "JobSearchDetail"

\* "/j_jid__" of DodaScraper.JOB_ID_PATTERN
JID == "/j_jid__"

\* "/job/" of GreenScraper.JOB_ID_PATTERN
JOB == "/job/"

\* url.startswith("http")
StartsWithHttp(url) ==
    url # <<>> /\ url[1] \in {DODA_BASE_URL, INDEED_BASE_URL, GREEN_BASE_URL}

\* urljoin(self.BASE_URL, url) for a url that is empty or starts with "/"
urljoin(base, url) == <<base>> \o url

\* s.startswith(p)
StartsWith(s, p) == Len(p) <= Len(s) /\ SubSeq(s, 1, Len(p)) = p

\* JOB_ID_PATTERN.search(url): group 1 of the leftmost match of
\* /j_jid__(\d+)/ (Doda) or /job/(\d+) (Green), None without a match
RECURSIVE JobIdSearch(_, _, _)
JobIdSearch(site, url, i) ==
    IF i > Len(url) THEN NoneText
    ELSE LET run == DigitRun(url, i + 1)
             hit == IF site = "green" THEN url[i] = JOB /\ run >= 1
                    ELSE /\ url[i] = JID
                         /\ run >= 1
                         /\ CharAt(url, i + 1 + run) = "/"
         IN  IF hit THEN SubSeq(url, i + 1, i + run)
             ELSE JobIdSearch(site, url, i + 1)

\* DodaScraper._extract_job_id
extract_job_id(url) == JobIdSearch("doda", url, 1)

\* _parse_job returns None
NoJob == [parsed |-> FALSE]

\* the dictionary _parse_job returns
JobDict(job_id, title, company, salary_text, salary, url, job_board) ==
    [parsed |-> TRUE,
     job_id |-> job_id,
     title |-> title,
     company |-> company,
     salary_text |-> salary_text,
     salary_annual_min |-> salary.annual_min,
     salary_annual_max |-> salary.annual_max,
     url |-> url,
     job_board |-> job_board]

\* the end of _parse_job, from salary = self._parse_salary(salary_text) on:
\* an exception of _parse_salary is caught by the try of _parse_job, which
\* then returns None
ParsedJob(job_id, title, company, salary_text, salary, url, job_board) ==
    IF salary.raised THEN NoJob
    ELSE JobDict(job_id, title, company, salary_text, salary, url, job_board)

\* DodaScraper._extract_dl_value: None without the label or with an empty
\* value
extract_dl_value(value) ==
    IF value = NoneText \/ value = <<>> THEN NoneText ELSE value

\* the anchors article.find("a", href=lambda x: x and "JobSearchDetail" in
\* x) chooses the first of
DodaDetailLinks(article) ==
    LET Detail(a) == DETAIL \in SeqToSet(a.href)
    IN  SelectSeq(article.anchors, Detail)

\* DodaScraper._parse_job
DodaScraper_parse_job(article) ==
    LET company == article.h2
        detail_links == DodaDetailLinks(article)
    IN  IF detail_links = <<>> THEN NoJob
        ELSE LET detail_link == detail_links[1]
                 href == detail_link.href
                 url == IF StartsWithHttp(href) THEN href
                        ELSE urljoin(DODA_BASE_URL, href)
                 raw_title == Strip(detail_link.text)
                 title == IF /\ company # NoneText
                             /\ company # <<>>
                             /\ StartsWith(raw_title, company)
                          THEN Strip(SubSeq(raw_title, Len(company) + 1,
                                            Len(raw_title)))
                          ELSE raw_title
                 job_id == extract_job_id(url)
                 salary_text == extract_dl_value(article.salary)
             IN  IF job_id = NoneText THEN NoJob
                 ELSE ParsedJob(job_id, title, company, salary_text,
                                DodaScraper_parse_salary(salary_text),
                                url, "doda")

\* the number of characters of a token: more than 4300 for HUGE, 120 for a
\* sentence, 2 for a salary marker, 9, 5, 4, 3, 2 for the words of a Green
\* card, 1 otherwise
LONG == "LONG"

CORP == "CORP"

ENGINEER == "ENGINEER"

SENIOR == "SENIOR"

BOSHU == "BOSHU"

ACME == "ACME"

NEW_BADGE == "New"

TokenLen(c) ==
    CASE c = HUGE -> 4301
      [] c = LONG -> 120
      [] c = SENIOR -> 9
      [] c = ENGINEER -> 5
      [] c = CORP -> 4
      [] c \in {ACME, NEW_BADGE} -> 3
      [] c \in {GEKKYU, GESSHU, NENSHU, NENPO, YOTEI, BOSHU} -> 2
      [] OTHER -> 1

\* len(text)
RECURSIVE TextLen(_)
TextLen(t) == IF t = <<>> THEN 0 ELSE TokenLen(Head(t)) + TextLen(Tail(t))

\* re.match(r"^[\d,]+万?円", text)
StartsWithAmount(text) ==
    LET InClass(c) == c \in Digits \cup {","}
        run == CHOOSE n \in 0..Len(text) :
                  /\ \A k \in 1..n : InClass(text[k])
                  /\ ~InClass(CharAt(text, n + 1))
    IN  run >= 1 /\ ManOptEnAt(text, run + 1) # 0

\* IndeedScraper._extract_salary_text: the first short div that starts with
\* a salary marker or with an amount
RECURSIVE extract_salary_text(_)
extract_salary_text(divs) ==
    IF divs = <<>> THEN NoneText
    ELSE LET text == Strip(Head(divs))
         IN  IF /\ TextLen(text) < 100
                /\ \/ CharAt(text, 1) \in {GEKKYU, NENSHU, NENPO}
                   \/ StartsWithAmount(text)
             THEN text
             ELSE extract_salary_text(Tail(divs))

\* IndeedScraper._parse_job
IndeedScraper_parse_job(job) ==
    IF job.title_links = <<>> THEN NoJob
    ELSE LET title_link == job.title_links[1]
             title == Strip(title_link.text)
             job_id == title_link.jk
             href == IF title_link.href = NoneText THEN <<>>
                     ELSE title_link.href
             url == IF href # <<>> /\ ~StartsWithHttp(href)
                    THEN urljoin(INDEED_BASE_URL, href)
                    ELSE href
             company == job.company
             salary_text == extract_salary_text(job.divs)
         IN  IF job_id = NoneText \/ job_id = <<>> THEN NoJob
             ELSE ParsedJob(job_id, title, company, salary_text,
                            IndeedScraper_parse_salary(salary_text),
                            url, "indeed")

\* the lines a company name is never taken from
Badges == {<<NEW_BADGE>>}

\* re.match(r"^\d+人?$", line); no line of the model ends with 人
IsCount(line) == line # <<>> /\ DigitRun(line, 1) = Len(line)

\* re.match(r"^\d{4}年", line); no line of the model holds 年
IsFounded(line) == FALSE

\* GreenScraper._find_company
RECURSIVE FindCompanyIn(_)
FindCompanyIn(lines) ==
    IF lines = <<>> THEN NoneText
    ELSE LET line == Head(lines)
             skipped == \/ TextLen(line) < 3
                        \/ line \in Badges
                        \/ IsCount(line)
                        \/ IsFounded(line)
         IN  IF ~skipped /\ (CORP \in SeqToSet(line) \/ TextLen(line) > 5)
             THEN line
             ELSE FindCompanyIn(Tail(lines))

find_company(lines) ==
    LET found == FindCompanyIn(SubSeq(lines, 1, IF Len(lines) < 5
                                                 THEN Len(lines) ELSE 5))
    IN  IF found # NoneText THEN found
        ELSE IF lines # <<>> THEN lines[1]
        ELSE NoneText

\* the job keywords of GreenScraper._find_title that the model's lines use
JobKeywords == {ENGINEER, BOSHU}

\* max(lines, key=len): the first of the longest lines
LongestLine(lines) ==
    LET k == CHOOSE i \in 1..Len(lines) :
                /\ \A j \in 1..Len(lines) : TextLen(lines[j]) <= TextLen(lines[i])
                /\ \A j \in 1..(i - 1) : TextLen(lines[j]) < TextLen(lines[i])
    IN  lines[k]

\* GreenScraper._find_title
find_title(lines) ==
    LET Titled(line) ==
            TextLen(line) >= 15 /\ SeqToSet(line) \cap JobKeywords # {}
        titled == SelectSeq(lines, Titled)
    IN  IF titled # <<>> THEN titled[1]
        ELSE IF lines # <<>> THEN LongestLine(lines)
        ELSE NoneText

\* GreenScraper._find_salary: the first line that holds 万円 (the model has
\* no line with 万〜)
find_salary(lines) ==
    LET Salaried(line) ==
            \E i \in 1..Len(line) : line[i] = MAN /\ CharAt(line, i + 1) = EN
        salaried == SelectSeq(lines, Salaried)
    IN  IF salaried # <<>> THEN salaried[1] ELSE NoneText

\* GreenScraper._parse_job: an exception of _parse_salary is caught and the
\* container gives None
GreenScraper_parse_job(container) ==
    LET href == container.href
        url == IF StartsWithHttp(href) THEN href
               ELSE urljoin(GREEN_BASE_URL, href)
        job_id == JobIdSearch("green", url, 1)
        lines == container.lines
        company == find_company(lines)
        title == find_title(lines)
        salary_text == find_salary(lines)
    IN  IF JobIdSearch("green", href, 1) = NoneText THEN NoJob
        ELSE IF job_id = NoneText THEN NoJob
        ELSE ParsedJob(job_id, title, company, salary_text,
                       GreenScraper_parse_salary(salary_text), url, "green")

\* GreenScraper._find_job_containers: one container for each job link with
\* a URL not seen before whose surrounding element has more than 100
\* characters of text
RECURSIVE FindContainers(_, _)
FindContainers(links, seen_urls) ==
    IF links = <<>> THEN <<>>
    ELSE LET link == Head(links)
         IN  IF JobIdSearch("green", link.href, 1) = NoneText
             THEN FindContainers(Tail(links), seen_urls)
             ELSE IF link.href \in seen_urls
             THEN FindContainers(Tail(links), seen_urls)
             ELSE (IF TextLen(JoinParts(link.lines)) > 100 THEN <<link>> ELSE <<>>)
                  \o FindContainers(Tail(links), seen_urls \cup {link.href})

find_job_containers(links) == FindContainers(links, {})

PageAdapters == {"doda", "green", "indeed"}

\* self._parse_job(item) of the named scraper
parse_job(adapter, item) ==
    CASE adapter = "doda" -> DodaScraper_parse_job(item)
      [] adapter = "green" -> GreenScraper_parse_job(item)
      [] adapter = "indeed" -> IndeedScraper_parse_job(item)

\* "if job: jobs.append(job)"
AppendIfJob(job) == IF job = NoJob THEN <<>> ELSE <<job>>

\* a variant of the loop of _parse_page that gives up at the first item
\* _parse_job returns None for
RECURSIVE ParseItemsUntilMalformed(_, _)
ParseItemsUntilMalformed(adapter, items) ==
    IF items = <<>> THEN <<>>
    ELSE LET job == parse_job(adapter, Head(items))
         IN  IF job = NoJob THEN <<>>
             ELSE <<job>> \o ParseItemsUntilMalformed(adapter, Tail(items))

\* the loop of _parse_page: for item in items: job = self._parse_job(item);
\* if job: jobs.append(job)
RECURSIVE ParseItems(_, _)
ParseItems(adapter, items) ==
    IF items = <<>> THEN <<>>
    ELSE AppendIfJob(parse_job(adapter, Head(items)))
         \o ParseItems(adapter, Tail(items))

\* the elements _parse_page iterates over: soup.find_all("article"),
\* soup.select("div.job_seen_beacon"), self._find_job_containers(soup)
PageItems(adapter, document) ==
    IF adapter = "green" THEN find_job_containers(document.items)
    ELSE document.items

\* _get_next_page_url: the href of the next-page link made absolute, None
\* without the link or with an empty href (Doda, Indeed: "if href"; Green:
\* an empty href does not match page=N)
get_next_page_url(adapter, document) ==
    LET href == document.next_link
        base == CASE adapter = "doda" -> DODA_BASE_URL
                  [] adapter = "green" -> GREEN_BASE_URL
                  [] adapter = "indeed" -> INDEED_BASE_URL
    IN  IF href = NoneText THEN NoneText
        ELSE IF href = <<>> THEN NoneText
        ELSE IF StartsWithHttp(href) THEN href
        ELSE urljoin(base, href)

\* _parse_page
parse_page(adapter, document) ==
    [raised |-> FALSE,
     jobs |-> ParseItems(adapter, PageItems(adapter, document)),
     next_url |-> get_next_page_url(adapter, document)]

\* ---- the documents of the model ----

DodaHrefs ==
    {<<"/DodaFront/View/", DETAIL, JID, "1", "/">>,
     <<DODA_BASE_URL, "/DodaFront/View/", DETAIL, JID, "2", "/">>,
     <<"/DodaFront/View/", DETAIL, "/">>,
     <<"/DodaFront/View/", "JobList", JID, "3", "/">>}

DodaArticles ==
    [h2 : {NoneText, <<ACME>>},
     anchors : {<<>>}
               \cup {<<a>> : a \in [href : DodaHrefs,
                                    text : {<<ACME, " ", "Designer">>}]},
     salary : {NoneText, <<NENSHU, "6", "0", "0", MAN, EN>>}]

IndeedHrefs ==
    {NoneText, <<"/rc/clk?jk=", "1">>, <<INDEED_BASE_URL, "/viewjob?jk=", "2">>}

IndeedCards ==
    [title_links : {<<>>}
                   \cup {<<a>> : a \in [text : {<<"Designer">>},
                                        jk : {NoneText, <<"1">>},
                                        href : IndeedHrefs]},
     company : {NoneText, <<ACME>>},
     divs : {<<>>, << <<GEKKYU, "2", "5", MAN, EN>> >>}]

GreenHrefs ==
    {<<"/company/", "1", JOB, "1">>, <<GREEN_BASE_URL, "/company/", "1", JOB, "2">>}

GreenLines ==
    {<< <<NEW_BADGE>> >>,
     << <<LONG>> >>,
     << <<NEW_BADGE>>, <<CORP, ACME>>, <<SENIOR, ENGINEER, BOSHU>>,
        <<"6", "0", "0", MAN, EN>>, <<LONG>> >>,
     << <<CORP, ACME>>, <<HUGE, MAN, EN>>, <<LONG>> >>}

GreenLinks == [href : GreenHrefs, lines : GreenLines]

ItemsOf(adapter) ==
    CASE adapter = "doda" -> DodaArticles
      [] adapter = "green" -> GreenLinks
      [] adapter = "indeed" -> IndeedCards

NextLinks == {NoneText, <<>>, <<"/next?page=1">>}

InitPage ==
    /\ \E a \in PageAdapters :
       \E items \in ListsUpTo(ItemsOf(a), MaxItems), n \in NextLinks :
          call = [op |-> "_parse_page", adapter |-> a,
                  document |-> [items |-> items, next_link |-> n]]
    /\ ret = NoCall
    /\ jobs = <<>>
    /\ now = 0
    /\ last = NoCall
    /\ OrchIdle
    /\ MatchIdle

ApplyParsePage ==
    /\ ret = NoCall
    /\ call.op = "_parse_page"
    /\ ret' = [op |-> call.op, r |-> parse_page(call.adapter, call.document)]
    /\ UNCHANGED <<matchVars, call, jobs, now, last, orchVars>>

NextPage == ApplyParsePage

SpecPage == InitPage /\ [][NextPage]_vars

PageParsed == ret # NoCall /\ ret.op = "_parse_page"

\* the items of the parsed document
DocumentItems == PageItems(call.adapter, call.document)

\* the job id an item announces: the one of its detail link (Doda, Green),
\* the data-jk of its title link (Indeed); None when the item has no such
\* link or no job id
AnnouncedId(adapter, item) ==
    CASE adapter = "doda" ->
            IF DodaDetailLinks(item) = <<>> THEN NoneText
            ELSE extract_job_id(DodaDetailLinks(item)[1].href)
      [] adapter = "green" -> JobIdSearch("green", item.href, 1)
      [] adapter = "indeed" ->
            IF item.title_links = <<>> THEN NoneText
            ELSE IF item.title_links[1].jk = <<>> THEN NoneText
            ELSE item.title_links[1].jk

\* parsing the item raises: the only exception the parsers of the model
\* raise is the one of GreenScraper._parse_salary
ParseRaises(adapter, item) ==
    /\ adapter = "green"
    /\ GreenScraper_parse_salary(find_salary(item.lines)).raised

Malformed(adapter, item) ==
    AnnouncedId(adapter, item) = NoneText \/ ParseRaises(adapter, item)

WellFormedItems ==
    LET WellFormed(item) == ~Malformed(call.adapter, item)
    IN  SelectSeq(DocumentItems, WellFormed)

\* C21: page parsing does not raise and returns exactly the well-formed
\* items of the document, in document order: an item whose parse raises or
\* that lacks the detail link or the job id is skipped, and the items
\* before and after it are returned.
C21_MalformedItemsSkipped ==
    PageParsed =>
        /\ ~ret.r.raised
        /\ Len(ret.r.jobs) = Len(WellFormedItems)
        /\ \A k \in 1..Len(ret.r.jobs) :
              /\ ret.r.jobs[k].parsed
              /\ ret.r.jobs[k].job_id
                    = AnnouncedId(call.adapter, WellFormedItems[k])
              /\ ret.r.jobs[k].job_board = call.adapter

\* a Doda or Indeed document of two items, the first without detail link
\* or job id, parsed into the job of the second
C21_SkippedWitness ==
    /\ PageParsed
    /\ call.adapter # "green"
    /\ Len(DocumentItems) = 2
    /\ Malformed(call.adapter, DocumentItems[1])
    /\ ~Malformed(call.adapter, DocumentItems[2])
    /\ Len(ret.r.jobs) = 1

\* a Green document whose first container raises in the salary parser and
\* whose second container is returned
C21_RaisingItemWitness ==
    /\ PageParsed
    /\ Len(DocumentItems) = 2
    /\ ParseRaises(call.adapter, DocumentItems[1])
    /\ Len(ret.r.jobs) = 1

\* C22: every record page parsing returns has a non-empty url, a title
\* that is not None, a company that is not None, and its source; an item
\* without recoverable URL is not returned.
C22_MandatoryFields ==
    PageParsed =>
        \A k \in 1..Len(ret.r.jobs) :
            /\ ret.r.jobs[k].url # <<>>
            /\ ret.r.jobs[k].title # NoneText
            /\ ret.r.jobs[k].company # NoneText
            /\ ret.r.jobs[k].job_board = call.adapter

\* C22, the part that holds in every adapter: job id, title and source of
\* a returned record are set; in Doda and Green also the url, which is
\* absolute; in Green also the company
C22_IdTitleSourceSet ==
    PageParsed =>
        \A k \in 1..Len(ret.r.jobs) :
            LET job == ret.r.jobs[k]
            IN  /\ job.job_id \notin {NoneText, <<>>}
                /\ job.title # NoneText
                /\ job.job_board = call.adapter
                /\ call.adapter # "indeed" => StartsWithHttp(job.url)
                /\ call.adapter = "green" => job.company # NoneText

\* an Indeed card whose title link has a data-jk and no href is returned
\* with an empty url
C22_EmptyUrlReturned ==
    /\ PageParsed
    /\ \E k \in 1..Len(ret.r.jobs) : ret.r.jobs[k].url = <<>>

\* a Doda article without h2 is returned with company None
C22_NullCompanyReturned ==
    /\ PageParsed
    /\ call.adapter = "doda"
    /\ \E k \in 1..Len(ret.r.jobs) : ret.r.jobs[k].company = NoneText

\* ------------------------------------------------------------------------
\* The pagination loop of the direct-fetch adapters, one iteration per step.
\* A site is a function from page locators (URLs) to what a fetch of the
\* locator gives: html or nothing, and the locator of the next page the html
\* shows (0 without one); a next locator may point back to a visited page.
\* ------------------------------------------------------------------------

MaxUrls == 2

Urls == 1..MaxUrls

\* the first URL: self._build_search_url(keywords, location)
SearchUrl == 1

CrawlSites == [Urls -> [html : BOOLEAN, next_url : 0..MaxUrls]]

CrawlAdapters == {"doda", "green", "indeed"}

\* range(1, max_pages + 1) in DodaScraper and IndeedScraper, range(max_pages)
\* in GreenScraper
FirstPageNum(adapter) == IF adapter = "green" THEN 0 ELSE 1

\* a variant of the range with one page more
InRangeOneMore(adapter, page_num, max_pages) ==
    IF adapter = "green" THEN page_num <= max_pages
    ELSE page_num <= max_pages + 1

\* the loop variable is still in the range
InRange(adapter, page_num, max_pages) ==
    IF adapter = "green" THEN page_num < max_pages
    ELSE page_num < max_pages + 1

\* "if page_num < max_pages" / "if page_num < max_pages - 1"
NotLastPage(adapter, page_num, max_pages) ==
    IF adapter = "green" THEN page_num < max_pages - 1
    ELSE page_num < max_pages

\* search() before the first iteration
CrawlStart(adapter) ==
    [op |-> "search", pc |-> "for", page_num |-> FirstPageNum(adapter),
     url |-> SearchUrl, all_jobs |-> <<>>, events |-> <<>>]

InitCrawl ==
    /\ \E a \in CrawlAdapters, site \in CrawlSites, max_pages \in 0..MaxPages :
          /\ call = [op |-> "search", adapter |-> a, site |-> site,
                     max_pages |-> max_pages]
          /\ ret = CrawlStart(a)
    /\ jobs = <<>>
    /\ now = 0
    /\ last = NoCall
    /\ OrchIdle
    /\ MatchIdle

\* one iteration of the for loop: fetch; "if not html: break"; parse and
\* extend; "if not next_url: break"; before the last page take next_url and
\* delay
FetchPage ==
    /\ ret.op = "search"
    /\ ret.pc = "for"
    /\ InRange(call.adapter, ret.page_num, call.max_pages)
    /\ LET page == call.site[ret.url]
           fetched == Append(ret.events, [e |-> "fetch", url |-> ret.url])
           extended == Append(ret.all_jobs, ret.url)
       IN  ret' =
             IF ~page.html
             THEN [ret EXCEPT !.pc = "return", !.events = fetched]
             ELSE IF page.next_url = 0
             THEN [ret EXCEPT !.pc = "return", !.events = fetched,
                              !.all_jobs = extended]
             ELSE IF NotLastPage(call.adapter, ret.page_num, call.max_pages)
             THEN [ret EXCEPT !.page_num = ret.page_num + 1,
                              !.url = page.next_url,
                              !.all_jobs = extended,
                              !.events = Append(fetched, [e |-> "delay", url |-> 0])]
             ELSE [ret EXCEPT !.page_num = ret.page_num + 1,
                              !.events = fetched,
                              !.all_jobs = extended]
    /\ UNCHANGED <<matchVars, call, jobs, now, last, orchVars>>

\* the loop is left, by break or at the end of the range: return all_jobs
ReturnAllJobs ==
    /\ ret.op = "search"
    /\ \/ ret.pc = "return"
       \/ ret.pc = "for" /\ ~InRange(call.adapter, ret.page_num, call.max_pages)
    /\ ret' = [ret EXCEPT !.pc = "done"]
    /\ UNCHANGED <<matchVars, call, jobs, now, last, orchVars>>

NextCrawl == FetchPage \/ ReturnAllJobs

SpecCrawl == InitCrawl /\ [][NextCrawl]_vars

\* the thread that runs search() keeps running
SpecCrawlFair == SpecCrawl /\ WF_vars(NextCrawl)

\* the locators fetched so far, in order
Fetches ==
    LET IsFetch(ev) == ev.e = "fetch"
        fetches == SelectSeq(ret.events, IsFetch)
    IN  [i \in 1..Len(fetches) |-> fetches[i].url]

\* the walk along the next locators from the first URL: n pages at most,
\* ending behind the first page that cannot be fetched or shows no next page
RECURSIVE Walk(_, _, _)
Walk(site, url, n) ==
    IF n = 0 THEN <<>>
    ELSE IF ~site[url].html \/ site[url].next_url = 0 THEN <<url>>
    ELSE <<url>> \o Walk(site, site[url].next_url, n - 1)

CrawlDone == ret.op = "search" /\ ret.pc = "done"

\* at most max_pages fetches, each of the next page of the walk
FetchesFollowWalk ==
    LET walk == Walk(call.site, SearchUrl, call.max_pages)
    IN  /\ Len(Fetches) <= call.max_pages
        /\ Len(Fetches) <= Len(walk)
        /\ Fetches = SubSeq(walk, 1, Len(Fetches))
        /\ CrawlDone => Fetches = walk

\* C23: for every max_pages >= 0 and every site, cyclic next locators
\* included, a direct-fetch search terminates; it fetches each visited page
\* once, at most max_pages pages, and none behind the first page without
\* next locator.
C23_SearchTerminates ==
    /\ [](call.op = "search" /\ ret.op = "search" => FetchesFollowWalk)
    /\ <>CrawlDone

\* a finished search over a site whose next locators form a cycle, stopped
\* by max_pages after fetching a page twice
C23_CycleWitness ==
    /\ CrawlDone
    /\ call.max_pages = MaxPages
    /\ Len(Fetches) = MaxPages
    /\ \E i, j \in 1..Len(Fetches) : i < j /\ Fetches[i] = Fetches[j]

\* a finished search with max_pages = 0: nothing fetched
C23_ZeroPagesWitness ==
    /\ CrawlDone
    /\ call.max_pages = 0
    /\ Fetches = <<>>

\* ------------------------------------------------------------------------
\* backfill_fingerprints called up to MaxOps times in a row, on tables whose
\* rows lack a fingerprint, hold the fingerprint of their fields, or hold
\* another value written before (the fingerprint of another title).
\* ------------------------------------------------------------------------

MaxRows == 3

\* the URL of the row at position k, one for each position
BackfillUrl(k) == <<"u", k>>

BackfillTitles == {<<"a">>, <<"A", "a">>}

\* the rows a table may hold at position k
BackfillRows(k) ==
    {[title |-> t, company |-> <<"a">>, url |-> BackfillUrl(k),
      job_board |-> BoardI, fingerprint |-> f,
      last_seen_at |-> NoneInt, is_active |-> TRUE] :
        t \in BackfillTitles,
        f \in {NoneText} \cup
              {generate_fingerprint(x, <<"a">>, BoardI) : x \in BackfillTitles}}

BackfillTables ==
    UNION {{q \in [1..n -> UNION {BackfillRows(k) : k \in 1..MaxRows}] :
               \A k \in 1..n : q[k] \in BackfillRows(k)} : n \in 0..MaxRows}

InitBackfill ==
    /\ call = NoCall
    /\ ret = NoCall
    /\ jobs \in BackfillTables
    /\ now = 0
    /\ last = [n |-> 0, op |-> "none"]
    /\ OrchIdle
    /\ MatchIdle

NextBackfill == Backfill

SpecBackfill == InitBackfill /\ [][NextBackfill]_vars

BackfillStep == last'.n = last.n + 1 /\ last'.op = "backfill_fingerprints"

Lacking(db) == {i \in 1..Len(db) : db[i].fingerprint = NoneText}

\* C24: backfill_fingerprints gives every record without fingerprint the
\* value generate_fingerprint(title, company, job_board) of its stored
\* fields, changes nothing else and returns the number of records it
\* filled; called again at once it returns 0 and changes nothing.
C24_BackfillFillsLackingOnce ==
    [][BackfillStep =>
        /\ Len(jobs') = Len(jobs)
        /\ \A i \in Lacking(jobs) :
              jobs'[i] = [jobs[i] EXCEPT !.fingerprint =
                             generate_fingerprint(jobs[i].title,
                                                  jobs[i].company,
                                                  jobs[i].job_board)]
        /\ \A i \in (1..Len(jobs)) \ Lacking(jobs) : jobs'[i] = jobs[i]
        /\ last'.count = Cardinality(Lacking(jobs))
        /\ last.op = "backfill_fingerprints" =>
              last'.count = 0 /\ jobs' = jobs]_vars

\* after one call that filled two records, next to a record that keeps a
\* fingerprint which is not the one of its fields
C24_FilledTwoWitness ==
    /\ last.op = "backfill_fingerprints"
    /\ last.n = 1
    /\ last.count = 2
    /\ \E i \in 1..Len(jobs) :
          jobs[i].fingerprint # BackfillValue(jobs[i])

\* after a second call in a row on a table the first call filled
C24_SecondCallWitness ==
    /\ last.op = "backfill_fingerprints"
    /\ last.n = 2
    /\ last.count = 0
    /\ Len(jobs) = MaxRows

\* ------------------------------------------------------------------------
\* get_scraper_config and the arguments run_scraper takes from it.  A
\* section of the configuration (a JSON object) is its set of keys and
\* their values; the value of a key that is not present is never read.
\* ------------------------------------------------------------------------

ConfigKeys == {"keywords", "location", "max_pages", "delay_range"}

\* JSON null as a delay range
NoneRange == <<NoneInt>>

DEFAULT_KEYWORDS == <<"designer">>

DEFAULT_LOCATION == "tokyo"

DEFAULT_MAX_PAGES == 2

DEFAULT_DELAY_RANGE == <<2, 3>>

\* the values of a key that is not present
Fillers ==
    [keywords |-> DEFAULT_KEYWORDS, location |-> DEFAULT_LOCATION,
     max_pages |-> DEFAULT_MAX_PAGES, delay_range |-> DEFAULT_DELAY_RANGE]

\* {}: also what config.get("global", {}) and .get(scraper_name, {}) give
\* for a section that is missing
EmptySection == [present |-> {}, value |-> Fillers]

\* a variant of the test that lets only a truthy value override
OverridesWhenTruthy(section, key) ==
    /\ key \in section.present
    /\ CASE key = "keywords" -> section.value[key] # <<>>
         [] key = "location" -> section.value[key] # ""
         [] key = "max_pages" -> section.value[key] # 0
         [] key = "delay_range" -> section.value[key] # <<>>

\* "key" in scraper_config
Overrides(section, key) == key \in section.present

\* global_config.get(key, default)
SectionGet(section, key, default) ==
    IF key \in section.present THEN section.value[key] ELSE default

\* config.get("scrapers", {}).get(scraper_name, {})
ScraperSection(config_file, scraper_name) ==
    IF scraper_name \in DOMAIN config_file.scrapers
    THEN config_file.scrapers[scraper_name]
    ELSE EmptySection

\* get_scraper_config
get_scraper_config(config_file, scraper_name) ==
    LET global_config == config_file.global
        scraper_config == ScraperSection(config_file, scraper_name)
        merged ==
            [keywords |-> SectionGet(global_config, "keywords", DEFAULT_KEYWORDS),
             location |-> SectionGet(global_config, "location", DEFAULT_LOCATION),
             max_pages |-> SectionGet(global_config, "max_pages", DEFAULT_MAX_PAGES),
             delay_range |->
                 SectionGet(global_config, "delay_range", DEFAULT_DELAY_RANGE)]
    IN  [key \in ConfigKeys |->
            IF Overrides(scraper_config, key) THEN scraper_config.value[key]
            ELSE merged[key]]

\* run_scraper up to the call of search: tuple(delay_range) raises TypeError
\* for null, inside the try; otherwise the scraper is built with the delay
\* range and searches with keywords, location and max_pages
ScraperArguments(config_file, scraper_name) ==
    LET scraper_config == get_scraper_config(config_file, scraper_name)
    IN  IF scraper_config.delay_range = NoneRange
        THEN [raised |-> TRUE, config |-> scraper_config]
        ELSE [raised |-> FALSE,
              config |-> scraper_config,
              delay_range |-> scraper_config.delay_range,
              keywords |-> scraper_config.keywords,
              location |-> scraper_config.location,
              max_pages |-> scraper_config.max_pages]

\* ---- the configurations of the model ----

ConfigValues ==
    [keywords : {<<>>, <<"ux">>},
     location : {"", "osaka"},
     max_pages : {0, 5},
     delay_range : {NoneRange, <<0, 1>>}]

\* every set of keys, every value for a present key
Sections ==
    {[present |-> ks,
      value |-> [key \in ConfigKeys |->
                    IF key \in ks THEN v[key] ELSE Fillers[key]]] :
        ks \in SUBSET ConfigKeys, v \in ConfigValues}

\* the section of the second adapter: missing, or overriding everything
OtherSections ==
    {s \in Sections :
        s.present = {} \/ (s.present = ConfigKeys /\ s.value.max_pages = 5
                           /\ s.value.keywords = <<>>
                           /\ s.value.location = "osaka"
                           /\ s.value.delay_range = <<0, 1>>)}

ConfigFiles ==
    {[global |-> g, scrapers |-> [doda |-> d, green |-> o]] :
        g \in Sections, d \in Sections, o \in OtherSections}

InitConfig ==
    /\ \E f \in ConfigFiles, n \in {"doda", "green", "indeed"} :
          call = [op |-> "get_scraper_config", config |-> f, name |-> n]
    /\ ret = NoCall
    /\ jobs = <<>>
    /\ now = 0
    /\ last = NoCall
    /\ OrchIdle
    /\ MatchIdle

ApplyScraperConfig ==
    /\ ret = NoCall
    /\ call.op = "get_scraper_config"
    /\ ret' = [op |-> call.op, r |-> ScraperArguments(call.config, call.name)]
    /\ UNCHANGED <<matchVars, call, jobs, now, last, orchVars>>

NextConfig == ApplyScraperConfig

SpecConfig == InitConfig /\ [][NextConfig]_vars

Configured == ret # NoCall /\ ret.op = "get_scraper_config"

\* the value the claim selects: the adapter's, else the global one, else
\* the default
Selected(config_file, scraper_name, key) ==
    LET own == ScraperSection(config_file, scraper_name)
    IN  IF key \in own.present THEN own.value[key]
        ELSE IF key \in config_file.global.present
             THEN config_file.global.value[key]
        ELSE CASE key = "keywords" -> DEFAULT_KEYWORDS
               [] key = "location" -> DEFAULT_LOCATION
               [] key = "max_pages" -> DEFAULT_MAX_PAGES
               [] key = "delay_range" -> DEFAULT_DELAY_RANGE

\* the configuration files that differ from f in the section of another
\* adapter only
OtherAdapterChanged(f, scraper_name) ==
    {[f EXCEPT !.scrapers[n] = s] :
        n \in (DOMAIN f.scrapers) \ {scraper_name}, s \in OtherSections}

\* C25: for keywords, location, max_pages and delay_range the adapter runs
\* with its own section's value whenever the section has the key, whatever
\* the value, else with the global value, else with the default; the
\* section of another adapter has no influence.
C25_PerAdapterValueWins ==
    Configured =>
        /\ \A key \in ConfigKeys :
              ret.r.config[key] = Selected(call.config, call.name, key)
        /\ ~ret.r.raised =>
              /\ ret.r.keywords = Selected(call.config, call.name, "keywords")
              /\ ret.r.location = Selected(call.config, call.name, "location")
              /\ ret.r.max_pages = Selected(call.config, call.name, "max_pages")
              /\ ret.r.delay_range
                    = Selected(call.config, call.name, "delay_range")
        /\ \A g \in OtherAdapterChanged(call.config, call.name) :
              ScraperArguments(g, call.name) = ret.r

\* doda overrides max_pages with 0 and keywords with the empty list, takes
\* the location from the global section and the delay range from the
\* defaults, while green overrides all four
C25_FalsyOverrideWitness ==
    /\ Configured
    /\ call.name = "doda"
    /\ call.config.scrapers.doda.present = {"max_pages", "keywords"}
    /\ call.config.scrapers.green.present = ConfigKeys
    /\ call.config.global.present = {"max_pages", "location"}
    /\ call.config.global.value.max_pages = 5
    /\ ~ret.r.raised
    /\ ret.r.max_pages = 0
    /\ ret.r.keywords = <<>>
    /\ ret.r.location = call.config.global.value.location
    /\ ret.r.delay_range = DEFAULT_DELAY_RANGE

(***************************************************************************)
(* The description component, checked under SpecMatch.                     *)
(***************************************************************************)
CallKeywords == JsonList(call.criteria.keywords_json)

\* the keyword is found in the text: its normalized form is not empty and a
\* part of the normalized text
FoundIn(keyword, text) ==
    /\ text # NoneText
    /\ MatcherNormalize(keyword) # <<>>
    /\ IsSubstring(MatcherNormalize(keyword), MatcherNormalize(text))

\* the positions of the keywords found in the title
InTitle ==
    {i \in 1..Len(CallKeywords) : FoundIn(CallKeywords[i], call.job.title)}

\* the positions of the remaining keywords found in the description
RemainingInDescription ==
    {i \in (1..Len(CallKeywords)) \ InTitle :
        FoundIn(CallKeywords[i], call.job.description)}

\* C26: with n keywords, t of them found in the title and d of the other
\* n - t found in the description, the description score is
\* floor(30 * d / (n - t)); when t = n > 0 it is 30 if some keyword is
\* found in the description and 0 otherwise.
C26_DescriptionScore ==
    (Matched /\ ~ret.r.raised /\ CallKeywords # <<>>) =>
        LET n == Len(CallKeywords)
            t == Cardinality(InTitle)
            d == Cardinality(RemainingInDescription)
        IN  ret.r.description_score =
                IF t < n THEN (WEIGHT_DESCRIPTION_KEYWORDS * d) \div (n - t)
                ELSE IF \E i \in 1..n :
                           FoundIn(CallKeywords[i], call.job.description)
                     THEN WEIGHT_DESCRIPTION_KEYWORDS
                     ELSE 0

\* two keywords, one found in title and description, the other nowhere:
\* description score 0
C26_NotCountedAgainWitness ==
    /\ Matched
    /\ ~ret.r.raised
    /\ Len(CallKeywords) = 2
    /\ Cardinality(InTitle) = 1
    /\ \E i \in InTitle : FoundIn(CallKeywords[i], call.job.description)
    /\ ret.r.description_score = 0

\* every keyword found in the title and one of them in the description: 30
C26_BonusWitness ==
    /\ Matched
    /\ ~ret.r.raised
    /\ Len(CallKeywords) = 2
    /\ Cardinality(InTitle) = 2
    /\ ret.r.description_score = WEIGHT_DESCRIPTION_KEYWORDS

\* one of two keywords found in the description only, the other nowhere: 15
C26_HalfWitness ==
    /\ Matched
    /\ ~ret.r.raised
    /\ Len(CallKeywords) = 2
    /\ InTitle = {}
    /\ Cardinality(RemainingInDescription) = 1
    /\ ret.r.description_score = 15

(***************************************************************************)
(* C27: one delay between two consecutive page requests.                   *)
(***************************************************************************)
\* the number of self.delay() calls made after the i-th request of the call
\* and before the next one
DelaysAfter(i) ==
    Cardinality({j \in DOMAIN ret.r.delays :
                    ret.r.delays[j] = ret.r.requested[i]})

\* the i-th request of the call is followed by another one
FollowedRequests == 1..(Len(ret.r.requested) - 1)

\* C27: in every search call, between any two consecutive page requests
\* (also after a page that timed out) exactly one delay is performed
C27_DelayBetweenRequests ==
    Searched => \A i \in FollowedRequests : DelaysAfter(i) = 1

\* the i-th request is a navigation of WantedlyBrowserScraper that timed out
TimedOutNavigation(i) ==
    /\ call.adapter = "wantedly_browser"
    /\ call.pages[ret.r.requested[i]].result = "timeout"

\* what the loops do: one delay between consecutive requests, except none
\* after a navigation of WantedlyBrowserScraper that timed out
C27_DelayUnlessTimedOut ==
    Searched =>
        \A i \in FollowedRequests :
            DelaysAfter(i) = (IF TimedOutNavigation(i) THEN 0 ELSE 1)

\* a call that asked for three pages with a delay after the first two
C27_DelayedWitness ==
    /\ Searched
    /\ ret.r.requested = <<1, 2, 3>>
    /\ ret.r.delays = <<1, 2>>

\* a call whose first navigation timed out and whose second page was asked
\* for with no delay before it
C27_BackToBackWitness ==
    /\ Searched
    /\ call.pages[1].result = "timeout"
    /\ ret.r.requested = <<1, 2>>
    /\ ret.r.delays = <<>>

(***************************************************************************)
(* C28: a posting whose URL and fingerprint match two different records.   *)
(***************************************************************************)
\* row a of the table has the URL of posting p, another row b its fingerprint
SplitMatch(db, p, a, b) ==
    /\ a # b
    /\ db[a].url = p.url
    /\ db[b].fingerprint = PostingFingerprint[p]

\* a committed store_jobs call on a batch of one posting
SingleStoreStep == StoreStep /\ Len(last'.batch) = 1 /\ last'.committed

\* C28: when the ingested posting's URL matches record A and its fingerprint
\* a different record B, only A is refreshed (last_seen_at, is_active), no
\* row is inserted, and B, every other record and the other fields of A stay
\* as they were
C28_UrlLookupTakesPrecedence ==
    [][SingleStoreStep =>
        \A a, b \in 1..Len(jobs) :
            SplitMatch(jobs, last'.batch[1], a, b) =>
                /\ Refreshed(jobs, jobs', a, now)
                /\ last'.stats.new_jobs = 0
                /\ last'.stats.duplicates = 1]_vars

\* P1 was ingested while its URL was stored with another fingerprint and its
\* fingerprint under another URL, stored before the URL's record: the
\* URL's record alone was refreshed
C28_Witness ==
    /\ last.op = "store_jobs"
    /\ last.batch = <<P1>>
    /\ last.committed
    /\ \E a, b \in 1..Len(jobs) :
          /\ b < a
          /\ SplitMatch(jobs, P1, a, b)
          /\ jobs[a].fingerprint # PostingFingerprint[P1]
          /\ jobs[a].last_seen_at = now
          /\ jobs[b].last_seen_at # NoneInt
          /\ jobs[b].last_seen_at < now

(***************************************************************************)
(* SpecIngest: the two ingestion entry points, store_jobs (with the        *)
(* maintenance commands around it) and run_all_scrapers with its           *)
(* run_scraper calls.                                                      *)
(***************************************************************************)
InitIngest == Init \/ InitOrch

NextIngest ==
    \/ opc = "idle" /\ Next
    \/ opc # "idle" /\ NextOrch

SpecIngest == InitIngest /\ [][NextIngest]_vars

\* the rows a step added to the table
InsertedRows == Len(jobs') - Len(jobs)

\* store_jobs returns its ScrapeStats
StoreJobsReturns == opc = "idle" /\ StoreStep

\* run_scraper's commit succeeds and the call returns its successful result
RunScraperReturns(name) ==
    /\ opc # "idle"
    /\ scraper[name].pc = "store"
    /\ scraper'[name].pc = "done"
    /\ scraper'[name].out.result.success

\* C29: every ScrapeStats of store_jobs (also after a failed commit) and
\* every successful ScraperResult of run_scraper has
\* scraped = added + duplicates + errors, scraped the length of the batch
\* and added the number of rows the call inserted into the table
C29_ResultsConserveRecords ==
    [][/\ StoreJobsReturns =>
            LET st == last'.stats
            IN  /\ st.total_scraped = Len(last'.batch)
                /\ st.total_scraped = st.new_jobs + st.duplicates + st.errors
                /\ st.new_jobs = InsertedRows
       /\ \A name \in Names :
            RunScraperReturns(name) =>
                LET r == scraper'[name].out.result
                IN  /\ r.jobs_scraped = Len(scraper[name].fetched)
                    /\ r.jobs_scraped =
                          r.jobs_added + r.duplicates + r.errors
                    /\ r.jobs_added = InsertedRows]_vars

\* store_jobs returned after a failed commit of a batch of two new postings:
\* both are counted as errors
C29_FailedCommitWitness ==
    /\ last.op = "store_jobs"
    /\ ~last.committed
    /\ last.stats.total_scraped = 2
    /\ last.stats.errors = 2
    /\ last.stats.new_jobs = 0

\* run_scraper returned a successful result with one added and one
\* duplicate record
C29_RunScraperWitness ==
    /\ opc # "idle"
    /\ \E name \in Names :
          /\ scraper[name].pc = "done"
          /\ scraper[name].out.result.success
          /\ scraper[name].out.result.jobs_added = 1
          /\ scraper[name].out.result.duplicates = 1

(***************************************************************************)
(* SpecModes: run_all_scrapers with deterministic adapters.  The call      *)
(* fixes what each enabled adapter's search yields and whether the         *)
(* database accepts the commit of its session; the mode, the worker count  *)
(* and the interleaving of the run_scraper calls stay free.                *)
(***************************************************************************)
\* the adapters the runs enable: up to three of the registry
ModeConfigs ==
    {c \in Configs : Cardinality(EnabledNames(c)) \in 1..3}

\* what the call fixes for the first k adapters of the registry: for an
\* enabled adapter an outcome of its search and whether its commit is
\* accepted; an adapter that is not enabled is never run
RECURSIVE FixedRuns(_, _)
FixedRuns(cfg, k) ==
    IF k = 0 THEN {<<>>}
    ELSE {Append(q, [search |-> o, commit |-> d]) :
             q \in FixedRuns(cfg, k - 1),
             o \in (IF cfg.enabled[SCRAPERS[k]]
                    THEN FixedOutcomes(SCRAPERS[k])
                    ELSE {[raises |-> TRUE, message |-> SearchError,
                           jobs |-> <<>>]}),
             d \in (IF cfg.enabled[SCRAPERS[k]] THEN BOOLEAN ELSE {TRUE})}

InitModes ==
    /\ ret = NoCall
    /\ last = NoCall
    /\ now = 1
    /\ MatchIdle
    /\ jobs \in {<<>>, <<OldRow>>}
    /\ config \in ModeConfigs
    /\ \E q \in FixedRuns(config, Len(SCRAPERS)) :
          call = [op |-> "run_all_scrapers",
                  search |-> [n \in Names |-> q[Rank(n)].search],
                  commit |-> [n \in Names |-> q[Rank(n)].commit],
                  jobs |-> jobs]
    /\ opc = "start"
    /\ scraper = [n \in Names |-> IdleScraper]
    /\ results = <<>>
    /\ shadow = [X |-> "none", jobs |-> jobs,
                 scraper |-> [n \in Names |-> IdleScraper]]

NextModes == NextOrch

SpecModes == InitModes /\ [][NextModes]_vars

\* run_scraper run on its own from the table db: search, the whole
\* ingestion loop, the commit; the table it leaves and the result it returns
RunScraperAlone(db, name, outcome, dbOk, now_s) ==
    LET searched == SearchStep(IdleScraper, name, outcome)
        run == IngestAll(db, NewSession, NoStats, outcome.jobs, now_s)
        stored == [searched EXCEPT !.S = run.S, !.st = run.st]
        step == CommitStep(db, stored, name, now_s, dbOk)
    IN  IF outcome.raises
        THEN [db |-> db, result |-> searched.out.result]
        ELSE [db |-> step.db, result |-> step.L.out.result]

\* "for name, scraper_class in enabled_scrapers: result.results.append(
\* run_scraper(...))": one adapter after the other, in registry order
RECURSIVE SequentialRun(_, _, _, _, _, _)
SequentialRun(db, names, searches, commits, now_s, rs) ==
    IF names = <<>> THEN [db |-> db, results |-> rs]
    ELSE LET one == RunScraperAlone(db, Head(names), searches[Head(names)],
                                    commits[Head(names)], now_s)
         IN  SequentialRun(one.db, Tail(names), searches, commits, now_s,
                           Append(rs, one.result))

\* what the sequential mode yields for the call of this run
SequentialOutcome ==
    SequentialRun(call.jobs, Enabled(config), call.search, call.commit,
                  now, <<>>)

\* no two enabled adapters produce a posting with the same URL or the same
\* fingerprint
DisjointAdapters ==
    \A n, m \in EnabledNames(config) :
        n # m =>
            \A i \in 1..Len(call.search[n].jobs),
               j \in 1..Len(call.search[m].jobs) :
                ~SameLogical(call.search[n].jobs[i], call.search[m].jobs[j])

\* the run has returned the same per-adapter results (in any order) and left
\* the same stored records as the sequential mode
SameAsSequential ==
    /\ SeqToSet(results) = SeqToSet(SequentialOutcome.results)
    /\ Len(results) = Len(SequentialOutcome.results)
    /\ SeqToSet(jobs) = SeqToSet(SequentialOutcome.db)
    /\ Len(jobs) = Len(SequentialOutcome.db)

C30_SameAsSequentialAnyPostings ==
    opc = "returned" => SameAsSequential

C30_NoWorkersWitness ==
    /\ opc = "raised"
    /\ DisjointAdapters

=============================================================================
